---- MODULE Spec2Model ----
(***************************************************************************)
(* zero - pre-emptive multitasking kernel for AVR.                         *)
(*                                                                         *)
(* A state-machine model of the kernel proper (src/core/thread.cpp) and of *)
(* the page search of the paged allocator (src/helpers/pagemanager.cpp).   *)
(*                                                                         *)
(* Every kernel entry point runs inside an atomic block (interrupts off),  *)
(* so one entry point is one action.  wait() is the exception: it yields   *)
(* in the middle, so it is split at the yield into the call (up to and     *)
(* including yield) and the resumption (from the cli after yield on).      *)
(* Interrupt handlers are actions of their own; they interleave with the   *)
(* thread-level actions at every point where interrupts are enabled.       *)
(*                                                                         *)
(* The intrusive lists (list.h) and the byte-level allocator front end     *)
(* (memory.cpp) are not part of the sources at hand; they are modelled     *)
(* from section 4.1/4.2 of the specification.  Lists are sequences of      *)
(* thread ids.  A node has one pair of links, so it occupies at most one   *)
(* position in one list object; linking an already linked node into a      *)
(* second list object leaves it reachable from both.                       *)
(*                                                                         *)
(* A Thread allocates its stack from the heap in its constructor and frees *)
(* it in its destructor, so the page bitmap is part of the kernel state.   *)
(***************************************************************************)
EXTENDS Integers, Sequences, FiniteSets, TLC

\* ------------------------------------------------------------------------
\* Bounds of the model
\* ------------------------------------------------------------------------
NumPoolThreads == 1
NumUserThreads == 3
NumCoreThreads == 1
MaxTimeout == 2
MsModulus == 2
MaxInitialTicks == 0
SignalBits == 5
PageCount == 5
UserSignals == 1

\* ------------------------------------------------------------------------
\* Program constants
\* ------------------------------------------------------------------------
QUANTUM_TICKS == 2
NUM_RESERVED_SIGS == 3
SIG_START_BIT == 0
SIG_STOP_BIT == 1
SIG_TIMEOUT_BIT == 2
StackBottom == 1
StackSize == 2
StackPages == 1

SIG_START == {SIG_START_BIT}
SIG_STOP == {SIG_STOP_BIT}
SIG_TIMEOUT == {SIG_TIMEOUT_BIT}
SIG_ALL_RESERVED == 0 .. (NUM_RESERVED_SIGS - 1)
SIGNAL_BITS == SignalBits
AllBits == 0 .. (SIGNAL_BITS - 1)
UserBits == AllBits \ SIG_ALL_RESERVED
\* The user signals the threads of the scheduler specifications use
SchedBits == NUM_RESERVED_SIGS .. (NUM_RESERVED_SIGS + UserSignals - 1)
\* allocateSignal()'s default argument, -1 as a uint16_t
AutoSignal == 65535

NULL == -1
Idle == 0
PoolThreads == 1 .. NumPoolThreads
UserThreads == (NumPoolThreads + 1) .. (NumPoolThreads + NumUserThreads)
Threads == PoolThreads \cup UserThreads
AllThreads == {Idle} \cup Threads

\* No termination synapse: the termSyn argument is nullptr
NoSynapse == [thread |-> NULL, mask |-> {}]

\* No wait() returned in the last step
NoReturn == [thread |-> NULL, mask |-> {}, due |-> 0]

MIN(a, b) == IF a < b THEN a ELSE b

VARIABLES
    readyLists,         \* _readyLists[2]: the two ready lists
    poolThreadList,     \* _poolThreadList
    timeoutList,        \* _timeoutList (offsets live in timeoutOffset)
    currentThread,      \* _currentThread (NULL before the first yield)
    activeListNum,      \* _activeListNum
    milliseconds,       \* _milliseconds
    switchingEnabled,   \* _switchingEnabled
    life,               \* per descriptor: "none", "fresh", "live", "dormant"
    pc,                 \* per thread: "run", "wait", "stopped"
    allocatedSignals,   \* Thread::_allocatedSignals
    waitingSignals,     \* Thread::_waitingSignals
    currentSignals,     \* Thread::_currentSignals
    timeoutOffset,      \* Thread::_timeoutOffset
    ticksRemaining,     \* Thread::_ticksRemaining
    rc,                 \* wait()'s rc, kept across the nested wait on START
    due,                \* ticks still missing to the timeout of the wait
    returned,           \* the wait() that returned in the last step, if any
    sp,                 \* the thread's stack pointer (SP / Thread::_sp)
    lowSp,              \* Thread::_lowSp
    hookCalled,         \* thread onStackOverflow ran for in the last step
    stackBottom,        \* Thread::_stackBottom as a page number, or NULL
    memoryMap,          \* PageManager::_memoryMap, TRUE = used
    held,               \* regions handed out by allocate and not yet freed
    lastAlloc,          \* the result of the most recent allocate
    toggles,            \* per thread: the toggles its loop has completed
    elapsed,            \* the milliseconds of the run that are over
    fired,              \* the timer interrupts served in this millisecond
    termSyn,            \* per thread: the termination synapse it was given
    exitCode,           \* per thread: the out-slot for its exit code
    sreg,               \* the I flag of SREG: interrupts are enabled
    savedSreg,          \* per thread: the I flags its atomic blocks saved
    unmasked            \* scheduler state was written with interrupts enabled

kvars == <<readyLists, poolThreadList, timeoutList, currentThread,
           activeListNum, milliseconds, switchingEnabled, life, pc,
           allocatedSignals, waitingSignals, currentSignals, timeoutOffset,
           ticksRemaining, rc, due, returned, sp, lowSp, hookCalled,
           stackBottom>>
xvars == <<termSyn, exitCode>>
ivars == <<sreg, savedSreg, unmasked>>
avars == <<toggles, elapsed, fired, termSyn, exitCode, sreg, savedSreg,
           unmasked>>
mvars == <<held, lastAlloc, toggles, elapsed, fired, termSyn, exitCode, sreg,
           savedSreg, unmasked>>
vars == <<readyLists, poolThreadList, timeoutList, currentThread,
          activeListNum, milliseconds, switchingEnabled, life, pc,
          allocatedSignals, waitingSignals, currentSignals, timeoutOffset,
          ticksRemaining, rc, due, returned, sp, lowSp, hookCalled,
          stackBottom, memoryMap, held, lastAlloc, toggles, elapsed, fired,
          termSyn, exitCode, sreg, savedSreg, unmasked>>

\* The kernel state as one record, so that the kernel's functions can be
\* written as operators from state to state and composed as the code
\* composes them.
K ==
    [readyLists |-> readyLists, poolThreadList |-> poolThreadList,
     timeoutList |-> timeoutList, currentThread |-> currentThread,
     activeListNum |-> activeListNum, milliseconds |-> milliseconds,
     switchingEnabled |-> switchingEnabled, life |-> life, pc |-> pc,
     allocatedSignals |-> allocatedSignals,
     waitingSignals |-> waitingSignals, currentSignals |-> currentSignals,
     timeoutOffset |-> timeoutOffset, ticksRemaining |-> ticksRemaining,
     rc |-> rc, due |-> due, returned |-> returned, sp |-> sp,
     lowSp |-> lowSp,
     hookCalled |-> hookCalled, stackBottom |-> stackBottom,
     memoryMap |-> memoryMap]

Become(s) ==
    /\ readyLists' = s.readyLists
    /\ poolThreadList' = s.poolThreadList
    /\ timeoutList' = s.timeoutList
    /\ currentThread' = s.currentThread
    /\ activeListNum' = s.activeListNum
    /\ milliseconds' = s.milliseconds
    /\ switchingEnabled' = s.switchingEnabled
    /\ life' = s.life
    /\ pc' = s.pc
    /\ allocatedSignals' = s.allocatedSignals
    /\ waitingSignals' = s.waitingSignals
    /\ currentSignals' = s.currentSignals
    /\ timeoutOffset' = s.timeoutOffset
    /\ ticksRemaining' = s.ticksRemaining
    /\ rc' = s.rc
    /\ due' = s.due
    /\ returned' = s.returned
    /\ sp' = s.sp
    /\ lowSp' = s.lowSp
    /\ hookCalled' = s.hookCalled
    /\ stackBottom' = s.stackBottom
    /\ memoryMap' = s.memoryMap

\* ------------------------------------------------------------------------
\* Intrusive lists (list.h)
\* ------------------------------------------------------------------------
InList(l, n) == \E i \in 1 .. Len(l) : l[i] = n

getHead(l) == IF l = <<>> THEN NULL ELSE l[1]

ListRemove(l, n) == SelectSeq(l, LAMBDA x : x # n)

ListAppend(l, n) == ListRemove(l, n) \o <<n>>

ListPrepend(l, n) == <<n>> \o ListRemove(l, n)

\* Offset list: the walk of insertByOffset.  Returns the index at which the
\* node is inserted and the offset accumulated up to there.
RECURSIVE InsertWalk(_, _, _, _, _)
InsertWalk(l, off, offset, i, running) ==
    IF i <= Len(l) /\ running + off[l[i]] <= offset
    THEN InsertWalk(l, off, offset, i + 1, running + off[l[i]])
    ELSE [at |-> i, running |-> running]

\* insertByOffset(node, offset) on the timeout list of state s
insertByOffset(s, node, offset) ==
    LET l == ListRemove(s.timeoutList, node)
        w == InsertWalk(l, s.timeoutOffset, offset, 1, 0)
        delta == offset - w.running
        off1 == [s.timeoutOffset EXCEPT ![node] = delta]
        off2 == IF w.at <= Len(l)
                THEN [off1 EXCEPT ![l[w.at]] = @ - delta]
                ELSE off1
    IN [s EXCEPT !.timeoutList = SubSeq(l, 1, w.at - 1) \o <<node>>
                                 \o SubSeq(l, w.at, Len(l)),
                 !.timeoutOffset = off2]

IndexOf(l, n) == CHOOSE i \in 1 .. Len(l) : l[i] = n

\* OffsetList::remove(node) on the timeout list of state s
offsetRemove(s, node) ==
    IF ~InList(s.timeoutList, node) THEN s
    ELSE LET i == IndexOf(s.timeoutList, node)
             off == IF i < Len(s.timeoutList)
                    THEN [s.timeoutOffset EXCEPT ![s.timeoutList[i + 1]] =
                             @ + s.timeoutOffset[node]]
                    ELSE s.timeoutOffset
         IN [s EXCEPT !.timeoutList = ListRemove(s.timeoutList, node),
                      !.timeoutOffset = off]

ACTIVE_LIST_NUM(s) == s.activeListNum
EXPIRED_LIST_NUM(s) == 1 - s.activeListNum
ACTIVE_LIST(s) == s.readyLists[ACTIVE_LIST_NUM(s)]
EXPIRED_LIST(s) == s.readyLists[EXPIRED_LIST_NUM(s)]

\* ------------------------------------------------------------------------
\* Scheduler
\* ------------------------------------------------------------------------

\* selectNextThread() as it would be if it took the head of the expired
\* list without swapping the two lists
selectNextThreadNoSwap(s) ==
    IF getHead(ACTIVE_LIST(s)) # NULL
    THEN [rc |-> getHead(ACTIVE_LIST(s)), s |-> s]
    ELSE IF getHead(EXPIRED_LIST(s)) # NULL
         THEN [rc |-> getHead(EXPIRED_LIST(s)), s |-> s]
         ELSE [rc |-> Idle, s |-> s]

\* selectNextThread(): the chosen thread and the state after a possible
\* swap of the two ready lists
selectNextThread(s) ==
    IF getHead(ACTIVE_LIST(s)) # NULL
    THEN [rc |-> getHead(ACTIVE_LIST(s)), s |-> s]
    ELSE LET s1 == [s EXCEPT !.activeListNum = 1 - @]
         IN IF getHead(ACTIVE_LIST(s1)) # NULL
            THEN [rc |-> getHead(ACTIVE_LIST(s1)), s |-> s1]
            ELSE [rc |-> Idle, s |-> s1]

\* The tail of a context save: _sp = SP, the peak marker, the overflow
\* check and callStackOverflowHandler()
saveContext(s) ==
    LET t == s.currentThread
        low == MIN(s.lowSp[t], s.sp[t])
    IN [s EXCEPT !.lowSp[t] = low,
                 !.hookCalled = IF low < StackBottom THEN t ELSE @]

\* yield() up to its call of selectNextThread()
yieldUnlink(s) ==
    LET t == s.currentThread
    IN IF t = NULL THEN s
       ELSE LET a == saveContext(s)
                b == [a EXCEPT !.readyLists[ACTIVE_LIST_NUM(a)] =
                         ListRemove(@, t)]
            IN IF b.timeoutOffset[t] # 0
               THEN insertByOffset(b, t, b.timeoutOffset[t])
               ELSE b

\* yield() as it would be if the switching gate were reopened for the
\* thread dispatched next
yieldPermits(s) ==
    LET n == selectNextThread(yieldUnlink(s))
    IN [n.s EXCEPT !.currentThread = n.rc, !.switchingEnabled = TRUE]

\* yield()
yield(s) ==
    LET n == selectNextThread(yieldUnlink(s))
    IN [n.s EXCEPT !.currentThread = n.rc]

\* getActiveSignals() as it would be if it ignored the waiting mask
getActiveSignalsAnyCurrent(s, t) == s.currentSignals[t]

\* Thread::getActiveSignals()
getActiveSignals(s, t) == s.currentSignals[t] \cap s.waitingSignals[t]

\* signal() as it would be if it left the woken thread where it is instead
\* of putting it at the top of the active list
signalNoPrepend(s, t, sigs) ==
    LET alreadySignalled == getActiveSignals(s, t) # {}
        s1 == [s EXCEPT !.currentSignals[t] =
                  @ \cup (sigs \cap s.allocatedSignals[t])]
    IN IF s1.currentThread # t /\ ~alreadySignalled
          /\ getActiveSignals(s1, t) # {}
       THEN IF s1.timeoutOffset[t] # 0
            THEN [offsetRemove(s1, t) EXCEPT !.timeoutOffset[t] = 0]
            ELSE s1
       ELSE s1

\* signal() as it would be if it did not restrict sigs to the allocated
\* signals
signalUnrestricted(s, t, sigs) ==
    LET alreadySignalled == getActiveSignals(s, t) # {}
        s1 == [s EXCEPT !.currentSignals[t] = @ \cup sigs]
    IN IF s1.currentThread # t /\ ~alreadySignalled
          /\ getActiveSignals(s1, t) # {}
       THEN LET s2 == IF s1.timeoutOffset[t] # 0
                      THEN [offsetRemove(s1, t) EXCEPT
                               !.timeoutOffset[t] = 0]
                      ELSE s1
            IN [s2 EXCEPT !.readyLists[ACTIVE_LIST_NUM(s2)] =
                   ListPrepend(ListRemove(@, t), t)]
       ELSE s1

\* Thread::signal(sigs) on thread t
signal(s, t, sigs) ==
    LET alreadySignalled == getActiveSignals(s, t) # {}
        s1 == [s EXCEPT !.currentSignals[t] =
                  @ \cup (sigs \cap s.allocatedSignals[t])]
    IN IF s1.currentThread # t /\ ~alreadySignalled
          /\ getActiveSignals(s1, t) # {}
       THEN LET s2 == IF s1.timeoutOffset[t] # 0
                      THEN [offsetRemove(s1, t) EXCEPT
                               !.timeoutOffset[t] = 0]
                      ELSE s1
            IN [s2 EXCEPT !.readyLists[ACTIVE_LIST_NUM(s2)] =
                   ListPrepend(ListRemove(@, t), t)]
       ELSE s1

\* The while loop of ISR( TIMER0_COMPA_vect )
RECURSIVE fireSleepers(_)
fireSleepers(s) ==
    LET curSleeper == getHead(s.timeoutList)
    IN IF curSleeper # NULL /\ s.timeoutOffset[curSleeper] = 0
       THEN fireSleepers(signal(offsetRemove(s, curSleeper), curSleeper,
                                SIG_TIMEOUT))
       ELSE s

\* ISR( TIMER0_COMPA_vect ): millisecond timer and timeout controller.  The
\* counter wraps as the uint32_t does, at MsModulus instead of 2^32.
TIMER0_COMPA_vect(s) ==
    LET s1 == [s EXCEPT !.milliseconds = (@ + 1) % MsModulus,
                        !.due = [t \in AllThreads |->
                                   IF s.pc[t] # "run" /\ s.due[t] > 0
                                   THEN s.due[t] - 1 ELSE s.due[t]]]
        curSleeper == getHead(s1.timeoutList)
    IN IF curSleeper = NULL THEN s1
       ELSE fireSleepers(
              IF s1.timeoutOffset[curSleeper] # 0
              THEN [s1 EXCEPT !.timeoutOffset[curSleeper] = @ - 1]
              ELSE s1)

\* ISR B as it would be if it did not read _switchingEnabled
TIMER0_COMPB_vectIgnoringForbid(s) ==
    LET c == s.currentThread
        s1 == IF s.ticksRemaining[c] # 0
              THEN [s EXCEPT !.ticksRemaining[c] = @ - 1] ELSE s
        s2 == IF c # getHead(ACTIVE_LIST(s1))
              THEN [s1 EXCEPT !.ticksRemaining[c] = 0] ELSE s1
    IN IF s2.ticksRemaining[c] # 0
       THEN s2
       ELSE LET s3 == saveContext(s2)
                s4 == IF c # Idle
                      THEN [s3 EXCEPT
                              !.readyLists[ACTIVE_LIST_NUM(s3)] =
                                  ListRemove(@, c),
                              !.readyLists[EXPIRED_LIST_NUM(s3)] =
                                  ListAppend(@, c)]
                      ELSE s3
                n == selectNextThread(s4)
                s5 == [n.s EXCEPT !.currentThread = n.rc]
            IN IF s5.ticksRemaining[n.rc] = 0
               THEN [s5 EXCEPT !.ticksRemaining[n.rc] = QUANTUM_TICKS]
               ELSE s5

\* ISR B as it would be without the test of the current thread against the
\* head of the active list
TIMER0_COMPB_vectNoRecency(s) ==
    LET c == s.currentThread
        s2 == IF s.ticksRemaining[c] # 0
              THEN [s EXCEPT !.ticksRemaining[c] = @ - 1] ELSE s
    IN IF s2.ticksRemaining[c] # 0 \/ ~s2.switchingEnabled
       THEN s2
       ELSE LET s3 == saveContext(s2)
                s4 == IF c # Idle
                      THEN [s3 EXCEPT
                              !.readyLists[ACTIVE_LIST_NUM(s3)] =
                                  ListRemove(@, c),
                              !.readyLists[EXPIRED_LIST_NUM(s3)] =
                                  ListAppend(@, c)]
                      ELSE s3
                n == selectNextThread(s4)
                s5 == [n.s EXCEPT !.currentThread = n.rc]
            IN IF s5.ticksRemaining[n.rc] = 0
               THEN [s5 EXCEPT !.ticksRemaining[n.rc] = QUANTUM_TICKS]
               ELSE s5

\* ISR B as it would be if it sent the idle thread to the expired list like
\* any other thread
TIMER0_COMPB_vectQueuesIdle(s) ==
    LET c == s.currentThread
        s1 == IF s.ticksRemaining[c] # 0
              THEN [s EXCEPT !.ticksRemaining[c] = @ - 1] ELSE s
        s2 == IF s1.switchingEnabled /\ c # getHead(ACTIVE_LIST(s1))
              THEN [s1 EXCEPT !.ticksRemaining[c] = 0] ELSE s1
    IN IF s2.ticksRemaining[c] # 0 \/ ~s2.switchingEnabled
       THEN s2
       ELSE LET s3 == saveContext(s2)
                s4 == [s3 EXCEPT
                         !.readyLists[ACTIVE_LIST_NUM(s3)] =
                             ListRemove(@, c),
                         !.readyLists[EXPIRED_LIST_NUM(s3)] =
                             ListAppend(@, c)]
                n == selectNextThread(s4)
                s5 == [n.s EXCEPT !.currentThread = n.rc]
            IN IF s5.ticksRemaining[n.rc] = 0
               THEN [s5 EXCEPT !.ticksRemaining[n.rc] = QUANTUM_TICKS]
               ELSE s5

\* ISR( TIMER0_COMPB_vect ): pre-emptive context switch
TIMER0_COMPB_vect(s) ==
    LET c == s.currentThread
        s1 == IF s.ticksRemaining[c] # 0
              THEN [s EXCEPT !.ticksRemaining[c] = @ - 1] ELSE s
        s2 == IF s1.switchingEnabled /\ c # getHead(ACTIVE_LIST(s1))
              THEN [s1 EXCEPT !.ticksRemaining[c] = 0] ELSE s1
    IN IF s2.ticksRemaining[c] # 0 \/ ~s2.switchingEnabled
       THEN s2
       ELSE LET s3 == saveContext(s2)
                s4 == IF c # Idle
                      THEN [s3 EXCEPT
                              !.readyLists[ACTIVE_LIST_NUM(s3)] =
                                  ListRemove(@, c),
                              !.readyLists[EXPIRED_LIST_NUM(s3)] =
                                  ListAppend(@, c)]
                      ELSE s3
                n == selectNextThread(s4)
                s5 == [n.s EXCEPT !.currentThread = n.rc]
            IN IF s5.ticksRemaining[n.rc] = 0
               THEN [s5 EXCEPT !.ticksRemaining[n.rc] = QUANTUM_TICKS]
               ELSE s5

\* ------------------------------------------------------------------------
\* Signals
\* ------------------------------------------------------------------------

\* Thread::clearSignals(sigs) on thread t
clearSignals(s, t, sigs) == [s EXCEPT !.currentSignals[t] = @ \ sigs]

\* freeSignals() as it would be if it left the freed bits in _waitingSignals
freeSignalsKeepWaiting(s, t, signals) ==
    LET sigsTofree == signals \ SIG_ALL_RESERVED
    IN [s EXCEPT !.allocatedSignals[t] = @ \ sigsTofree,
                 !.currentSignals[t] = @ \ sigsTofree]

\* freeSignals() as it would be if it did not spare the reserved signals
freeSignalsAny(s, t, signals) ==
    [s EXCEPT !.allocatedSignals[t] = @ \ signals,
              !.waitingSignals[t] = @ \ signals,
              !.currentSignals[t] = @ \ signals]

\* Thread::freeSignals(signals) on thread t
freeSignals(s, t, signals) ==
    LET sigsTofree == signals \ SIG_ALL_RESERVED
    IN [s EXCEPT !.allocatedSignals[t] = @ \ sigsTofree,
                 !.waitingSignals[t] = @ \ sigsTofree,
                 !.currentSignals[t] = @ \ sigsTofree]

\* Thread::tryAllocateSignal(signalNumber): can the bit be taken?
tryAllocateSignal(s, t, signalNumber) ==
    signalNumber < SIGNAL_BITS /\ signalNumber \notin s.allocatedSignals[t]

\* allocateSignal() as it would be if the search for a free signal ran from
\* the top of the bit field down
allocateSignalMaskTopDown(s, t, reqdSignalNumber) ==
    IF reqdSignalNumber < SIGNAL_BITS
    THEN IF tryAllocateSignal(s, t, reqdSignalNumber)
         THEN {reqdSignalNumber} ELSE {}
    ELSE LET free == {i \in NUM_RESERVED_SIGS .. (SIGNAL_BITS - 1) :
                        tryAllocateSignal(s, t, i)}
         IN IF free = {} THEN {}
            ELSE {CHOOSE i \in free : \A j \in free : i >= j}

\* Thread::allocateSignal(reqdSignalNumber): the bits it takes (the mask it
\* returns; {} is the 0 return)
allocateSignalMask(s, t, reqdSignalNumber) ==
    IF reqdSignalNumber < SIGNAL_BITS
    THEN IF tryAllocateSignal(s, t, reqdSignalNumber)
         THEN {reqdSignalNumber} ELSE {}
    ELSE LET free == {i \in NUM_RESERVED_SIGS .. (SIGNAL_BITS - 1) :
                        tryAllocateSignal(s, t, i)}
         IN IF free = {} THEN {}
            ELSE {CHOOSE i \in free : \A j \in free : i <= j}

allocateSignal(s, t, reqdSignalNumber) ==
    [s EXCEPT !.allocatedSignals[t] =
        @ \cup allocateSignalMask(s, t, reqdSignalNumber)]

\* Thread::wait(sigs, timeout) called by the running thread t, from the
\* build of the waiting mask on.  nested is TRUE for the wait( SIG_START )
\* that wait() itself issues after a STOP.
\* wait() returns mask r to its caller, thread t
waitReturn(s, t, r) ==
    [s EXCEPT !.pc[t] = "run",
              !.returned = [thread |-> t, mask |-> r, due |-> s.due[t]],
              !.rc[t] = {},
              !.due[t] = 0]

RECURSIVE waitBody(_, _, _, _, _)
RECURSIVE waitTail(_, _, _, _)
waitTail(s, t, r, nested) ==
    LET s1 == clearSignals(s, t, r)
        s2 == [s1 EXCEPT !.timeoutOffset[s1.currentThread] = 0]
        s3 == IF nested THEN s2 ELSE [s2 EXCEPT !.rc[t] = r]
    IN IF r \cap SIG_STOP # {}
       THEN waitBody(s3, t, SIG_START, 0, TRUE)
       ELSE waitReturn(s3, t, s3.rc[t])

waitBody(s, t, sigs, timeout, nested) ==
    LET w1 == IF sigs \cap SIG_START = {} THEN sigs \cup SIG_STOP ELSE sigs
        w2 == IF timeout # 0 THEN w1 \cup SIG_TIMEOUT ELSE w1 \ SIG_TIMEOUT
        w3 == w2 \cap s.allocatedSignals[t]
        s1 == [s EXCEPT !.waitingSignals[t] = w3,
                        !.timeoutOffset[t] = timeout,
                        !.due[t] = IF nested THEN @ ELSE timeout]
    IN IF w3 = {}
       THEN waitReturn(s1, t, s1.rc[t])
       ELSE IF getActiveSignals(s1, t) = {}
            THEN yield([s1 EXCEPT
                          !.pc[t] = IF nested THEN "stopped" ELSE "wait"])
            ELSE waitTail(s1, t, getActiveSignals(s1, t), nested)

\* wait() as it would be without the test of _currentThread against this
waitAnyCaller(s, t, obj, sigs, timeout) ==
    waitBody(s, obj, sigs, timeout, FALSE)

\* Thread::wait(sigs, timeout) on thread object obj, called by thread t
wait(s, t, obj, sigs, timeout) ==
    IF s.currentThread # obj
    THEN [s EXCEPT !.returned = [thread |-> t, mask |-> {}, due |-> 0]]
    ELSE waitBody(s, obj, sigs, timeout, FALSE)

\* Thread::wait() from the cli() after yield() on: the thread has been
\* given the processor again
waitResume(s, t) ==
    waitTail(s, t, getActiveSignals(s, t), s.pc[t] = "stopped")

\* Thread::stop() / Thread::restart() on thread t
stop(s, t) ==
    IF s.waitingSignals[t] \cap SIG_STOP # {}
    THEN signal(s, t, SIG_STOP) ELSE s

restart(s, t) ==
    IF s.waitingSignals[t] \cap SIG_START # {}
    THEN signal(s, t, SIG_START) ELSE s

\* Thread::forbid() / Thread::permit()
forbid(s) == [s EXCEPT !.switchingEnabled = FALSE]

\* permit() as it would be if it inverted the flag
permitToggle(s) == [s EXCEPT !.switchingEnabled = ~@]

permit(s) == [s EXCEPT !.switchingEnabled = TRUE]


\* ------------------------------------------------------------------------
\* Paged allocator (helpers/pagemanager.cpp, memory.cpp)
\* ------------------------------------------------------------------------
PAGE_COUNT == PageCount
TopDown == 0
BottomUp == 1
SearchStrategy == {TopDown, BottomUp}

\* (uint16_t) -1
NoPage == 65535

\* PageManager::isPageAvailable(pageNumber) on bitmap m
isPageAvailable(m, pageNumber) == ~m[pageNumber]

\* PageManager::getTotalPageCount()
getTotalPageCount == PAGE_COUNT

\* The for loop of getFreePageCount from page i on
RECURSIVE countFree(_, _, _)
countFree(m, i, count) ==
    IF i >= getTotalPageCount THEN count
    ELSE countFree(m, i + 1,
                   IF isPageAvailable(m, i) THEN count + 1 ELSE count)

\* getFreePageCount() as it would be if the loop skipped page 0
getFreePageCountFromOne(m) == countFree(m, 1, 0)

\* PageManager::getFreePageCount() on bitmap m
getFreePageCount(m) == countFree(m, 0, 0)

\* PageManager::getUsedPageCount() on bitmap m, a uint16_t
getUsedPageCount(m) == (getTotalPageCount - getFreePageCount(m)) % 65536

getPageForSearchStep_BottomUp(step, totalPages) == step

\* getPageForSearchStep_TopDown() as it would be if it walked upwards
getPageForSearchStep_TopDownAscending(step, totalPages) == step

getPageForSearchStep_TopDown(step, totalPages) == totalPages - (step + 1)

\* _strategies[strat](step, totalPages)
strategies(strat, step, totalPages) ==
    IF strat = TopDown
    THEN getPageForSearchStep_TopDown(step, totalPages)
    ELSE getPageForSearchStep_BottomUp(step, totalPages)

\* The for loop of findFreePages from step curStep on; returns startPage and
\* pageCount as the loop leaves them
RECURSIVE findLoop(_, _, _, _, _, _)
findLoop(m, numPagesRequired, strat, curStep, startPage, pageCount) ==
    IF curStep >= PAGE_COUNT
    THEN [startPage |-> startPage, pageCount |-> pageCount]
    ELSE LET curPage == strategies(strat, curStep, PAGE_COUNT)
         IN IF curPage = NoPage
            THEN [startPage |-> startPage, pageCount |-> pageCount]
            ELSE IF isPageAvailable(m, curPage)
                 THEN LET start1 == IF startPage = NoPage
                                    THEN curPage ELSE startPage
                      IN IF pageCount + 1 = numPagesRequired
                         THEN [startPage |-> MIN(start1, curPage),
                               pageCount |-> pageCount + 1]
                         ELSE findLoop(m, numPagesRequired, strat,
                                       curStep + 1, start1, pageCount + 1)
                 ELSE findLoop(m, numPagesRequired, strat, curStep + 1,
                               NoPage, 0)

\* findFreePages() as it would be if a used page did not restart the run
findFreePagesNoReset(m, numPagesRequired, strat) ==
    LET free == {q \in 0 .. (PAGE_COUNT - 1) : isPageAvailable(m, q)}
    IN IF Cardinality(free) < numPagesRequired \/ free = {} THEN -1
       ELSE CHOOSE q \in free : \A o \in free : q <= o

\* findFreePages() as it would be without the final test of pageCount
findFreePagesNoCountCheck(m, numPagesRequired, strat) ==
    LET r == findLoop(m, numPagesRequired, strat, 0, NoPage, 0)
    IN IF r.startPage = NoPage THEN -1 ELSE r.startPage

\* PageManager::findFreePages(numPagesRequired, strat) on bitmap m: the
\* first page of the run, or -1
findFreePages(m, numPagesRequired, strat) ==
    LET r == findLoop(m, numPagesRequired, strat, 0, NoPage, 0)
    IN IF r.pageCount < numPagesRequired THEN -1
       ELSE IF r.startPage = NoPage THEN -1 ELSE r.startPage

\* The pages of a region
PagesOf(r) == r.base .. (r.base + r.pages - 1)

\* memory::allocate(): find the run and mark its pages used
allocate(m, pages, strat) ==
    LET base == findFreePages(m, pages, strat)
    IN IF base < 0
       THEN [map |-> m, base |-> NULL, pages |-> 0]
       ELSE [map |-> [q \in 0 .. (PAGE_COUNT - 1) |->
                         m[q] \/ (q >= base /\ q < base + pages)],
             base |-> base, pages |-> pages]

\* memory::free(): mark the pages of the region free
free(m, r) == [q \in 0 .. (PAGE_COUNT - 1) |-> m[q] /\ q \notin PagesOf(r)]

\* ------------------------------------------------------------------------
\* Lifecycle
\* ------------------------------------------------------------------------
newStackTop == StackBottom + StackSize - 1

\* Thread::reanimate() of descriptor t
reanimate(s, t) ==
    [s EXCEPT !.sp[t] = newStackTop,
              !.lowSp[t] = newStackTop,
              !.allocatedSignals[t] = SIG_ALL_RESERVED,
              !.waitingSignals[t] = {},
              !.currentSignals[t] = {},
              !.timeoutOffset[t] = 0,
              !.life[t] = "live",
              !.pc[t] = "run",
              !.rc[t] = {},
              !.due[t] = 0]

\* fromPool() as it would be if it put the thread at the end of the active
\* list
fromPoolAppend(s) ==
    LET r == getHead(s.poolThreadList)
    IN IF r # NULL
       THEN LET s1 == [s EXCEPT !.poolThreadList = ListRemove(@, r)]
                s2 == reanimate(s1, r)
            IN [s2 EXCEPT !.readyLists[ACTIVE_LIST_NUM(s2)] =
                   ListAppend(@, r)]
       ELSE s

\* The Thread* that fromPool() returns
fromPoolReturn(s) == getHead(s.poolThreadList)

\* Thread::fromPool()
fromPool(s) ==
    LET r == getHead(s.poolThreadList)
    IN IF r # NULL
       THEN LET s1 == [s EXCEPT !.poolThreadList = ListRemove(@, r)]
                s2 == reanimate(s1, r)
            IN [s2 EXCEPT !.readyLists[ACTIVE_LIST_NUM(s2)] =
                   ListPrepend(@, r)]
       ELSE s

\* The member initialiser of Thread::Thread(): the stack of descriptor u is
\* allocated top-down
allocateStack(s, u) ==
    LET a == allocate(s.memoryMap, StackPages, TopDown)
    IN [s EXCEPT !.memoryMap = a.map, !.stackBottom[u] = a.base]

\* Thread::~Thread() of descriptor t: the stack is freed
freeStack(s, t) ==
    IF s.stackBottom[t] = NULL THEN s
    ELSE [s EXCEPT !.memoryMap =
                       free(@, [base |-> s.stackBottom[t],
                                pages |-> StackPages]),
                   !.stackBottom[t] = NULL]

\* Thread::Thread() of a normal TF_READY thread whose descriptor is u; the
\* constructor leaves _ticksRemaining as it finds it (tk)
newThread(s, u, tk) ==
    LET s0 == allocateStack(s, u)
        s1 == reanimate([s0 EXCEPT !.ticksRemaining[u] = tk], u)
    IN [s1 EXCEPT !.readyLists[ACTIVE_LIST_NUM(s1)] = ListAppend(@, u)]

\* delete &t: the destructor runs and the descriptor is gone
destroyed(s, t) ==
    [freeStack(s, t) EXCEPT !.life[t] = "none", !.pc[t] = "run",
              !.allocatedSignals[t] = {}, !.waitingSignals[t] = {},
              !.currentSignals[t] = {}, !.timeoutOffset[t] = 0,
              !.ticksRemaining[t] = 0, !.rc[t] = {}, !.due[t] = 0,
              !.sp[t] = newStackTop, !.lowSp[t] = newStackTop]

\* globalThreadEntry() as it would be if it deleted pool threads too
globalThreadEntryDeletesPool(s, t) ==
    LET s1 == [s EXCEPT !.readyLists[ACTIVE_LIST_NUM(s)] = ListRemove(@, t),
                        !.currentThread = NULL]
    IN yield(destroyed(s1, t))

\* Thread::globalThreadEntry() from the cli() after the entry function has
\* returned
globalThreadEntry(s, t) ==
    LET s1 == [s EXCEPT !.readyLists[ACTIVE_LIST_NUM(s)] = ListRemove(@, t),
                        !.currentThread = NULL]
        s2 == IF t \in PoolThreads
              THEN [s1 EXCEPT !.poolThreadList = ListAppend(@, t),
                              !.life[t] = "dormant"]
              ELSE destroyed(s1, t)
    IN yield(s2)

\* ------------------------------------------------------------------------
\* Inputs
\* ------------------------------------------------------------------------
\* _ticksRemaining as a constructor finds it: no constructor sets it
InitialTicks == 0 .. MaxInitialTicks
WaitMasks == SUBSET SchedBits
SignalMasks == (SUBSET SchedBits) \ {{}}
Timeouts == 0 .. MaxTimeout
SignalNumbers == 0 .. (NUM_RESERVED_SIGS + UserSignals - 1)
SpValues == (StackBottom - 1) .. newStackTop

\* The state an action starts from
K0 == [K EXCEPT !.hookCalled = NULL, !.returned = NoReturn]

\* Thread t is executing user code
Running(t) ==
    /\ t \in Threads
    /\ currentThread = t
    /\ life[t] = "live"
    /\ pc[t] = "run"

\* The descriptors a caller can hold a pointer to
Known(t) == t \in Threads /\ life[t] \in {"live", "dormant"}

Started == currentThread # NULL

\* ------------------------------------------------------------------------
\* Actions
\* ------------------------------------------------------------------------
\* preMain(): the stacks of the idle thread and of the pool threads, taken
\* in this order from the empty heap
RECURSIVE bootStacks(_, _)
bootStacks(s, t) ==
    IF t > NumPoolThreads THEN s
    ELSE bootStacks(allocateStack(s, t), t + 1)

BootHeap ==
    bootStacks([memoryMap |-> [q \in 0 .. (PAGE_COUNT - 1) |-> FALSE],
                stackBottom |-> [t \in AllThreads |-> NULL]], Idle)

InitKernel ==
    /\ readyLists = [i \in 0 .. 1 |-> <<>>]
    /\ poolThreadList = [i \in 1 .. NumPoolThreads |-> i]
    /\ timeoutList = <<>>
    /\ currentThread = NULL
    /\ activeListNum = 0
    /\ milliseconds = 0
    /\ switchingEnabled = TRUE
    /\ life = [t \in AllThreads |->
                 IF t = Idle THEN "live"
                 ELSE IF t \in PoolThreads THEN "fresh" ELSE "none"]
    /\ pc = [t \in AllThreads |-> "run"]
    /\ allocatedSignals = [t \in AllThreads |->
                             IF t = Idle THEN SIG_ALL_RESERVED ELSE {}]
    /\ waitingSignals = [t \in AllThreads |-> {}]
    /\ currentSignals = [t \in AllThreads |-> {}]
    /\ timeoutOffset = [t \in AllThreads |-> 0]
    /\ ticksRemaining \in [AllThreads -> InitialTicks]
    /\ \A t \in UserThreads : ticksRemaining[t] = 0
    /\ rc = [t \in AllThreads |-> {}]
    /\ due = [t \in AllThreads |-> 0]
    /\ returned = NoReturn
    /\ sp = [t \in AllThreads |-> newStackTop]
    /\ lowSp = [t \in AllThreads |-> newStackTop]
    /\ hookCalled = NULL
    /\ held = {}
    /\ lastAlloc = [base |-> NULL, pages |-> 0]
    /\ toggles = [t \in AllThreads |-> 0]
    /\ elapsed = 0
    /\ fired = {}
    /\ termSyn = [t \in AllThreads |-> NoSynapse]
    /\ exitCode = [t \in AllThreads |-> "none"]
    /\ sreg = FALSE
    /\ savedSreg = [t \in AllThreads |-> <<>>]
    /\ unmasked = FALSE

\* The state after preMain()
Init ==
    /\ InitKernel
    /\ memoryMap = BootHeap.memoryMap
    /\ stackBottom = BootHeap.stackBottom

\* The allocator before preMain() has constructed any thread
InitPM ==
    /\ InitKernel
    /\ memoryMap = [q \in 0 .. (PAGE_COUNT - 1) |-> FALSE]
    /\ stackBottom = [t \in AllThreads |-> NULL]

\* main() creates a thread before the scheduler runs
MainNewThread(u, tk) ==
    /\ ~Started
    /\ u \in UserThreads /\ life[u] = "none"
    /\ Become(newThread(K0, u, tk))
    /\ UNCHANGED mvars

\* postMain(): the first yield
PostMain ==
    /\ ~Started
    /\ Become(yield(K0))
    /\ UNCHANGED mvars

NewThread(t, u, tk) ==
    /\ Running(t)
    /\ u \in UserThreads /\ life[u] = "none"
    /\ Become(newThread(K0, u, tk))
    /\ UNCHANGED mvars

FromPool(t) ==
    /\ Running(t)
    /\ Become(fromPool(K0))
    /\ UNCHANGED mvars

ThreadExit(t) ==
    /\ Running(t)
    /\ Become(globalThreadEntry(K0, t))
    /\ UNCHANGED mvars

Wait(t, obj, sigs, timeout) ==
    /\ Running(t)
    /\ Known(obj)
    /\ Become(wait(K0, t, obj, sigs, timeout))
    /\ UNCHANGED mvars

WaitResume(t) ==
    /\ t \in Threads
    /\ currentThread = t
    /\ life[t] = "live"
    /\ pc[t] \in {"wait", "stopped"}
    /\ Become(waitResume(K0, t))
    /\ UNCHANGED mvars

Signal(t, target, sigs) ==
    /\ Running(t)
    /\ Known(target)
    /\ Become(signal(K0, target, sigs))
    /\ UNCHANGED mvars

\* signal() called from a device interrupt handler
IsrSignal(target, sigs) ==
    /\ Started
    /\ Known(target)
    /\ Become(signal(K0, target, sigs))
    /\ UNCHANGED mvars

Stop(t, target) ==
    /\ Running(t)
    /\ Known(target)
    /\ Become(stop(K0, target))
    /\ UNCHANGED mvars

Restart(t, target) ==
    /\ Running(t)
    /\ Known(target)
    /\ Become(restart(K0, target))
    /\ UNCHANGED mvars

AllocateSignal(t, obj, n) ==
    /\ Running(t)
    /\ Known(obj)
    /\ Become(allocateSignal(K0, obj, n))
    /\ UNCHANGED mvars

FreeSignals(t, obj, sigs) ==
    /\ Running(t)
    /\ Known(obj)
    /\ Become(freeSignals(K0, obj, sigs))
    /\ UNCHANGED mvars

ClearSignals(t, obj, sigs) ==
    /\ Running(t)
    /\ Known(obj)
    /\ Become(clearSignals(K0, obj, sigs))
    /\ UNCHANGED mvars

Forbid(t) ==
    /\ Running(t)
    /\ Become(forbid(K0))
    /\ UNCHANGED mvars

Permit(t) ==
    /\ Running(t)
    /\ Become(permit(K0))
    /\ UNCHANGED mvars

TickA ==
    /\ Started
    /\ Become(TIMER0_COMPA_vect(K0))
    /\ UNCHANGED mvars

TickB ==
    /\ Started
    /\ Become(TIMER0_COMPB_vect(K0))
    /\ UNCHANGED mvars

\* The running thread pushes or pops: its stack pointer moves
UseStack(t, v) ==
    /\ Running(t)
    /\ v # sp[t]
    /\ Become([K0 EXCEPT !.sp[t] = v])
    /\ UNCHANGED mvars

\* The user threads the scheduler specifications create; the liveness
\* specification uses all of them
CoreThreads == (NumPoolThreads + 1) .. (NumPoolThreads + NumCoreThreads)

\* What the threads of the model do.  A user thread uses the whole
\* interface on itself; a pool job sleeps, signals and submits jobs but
\* owns no user signal (a pool thread must have freed its signals when it
\* exits, src/core/thread.cpp:210-224).
WaitInputs(t) == IF t \in PoolThreads THEN {{}} ELSE WaitMasks

Boot ==
    \/ \E u \in CoreThreads, tk \in InitialTicks : MainNewThread(u, tk)
    \/ PostMain

Lifecycle ==
    \/ \E t \in Threads, u \in CoreThreads, tk \in InitialTicks :
           NewThread(t, u, tk)
    \/ \E t \in Threads : FromPool(t)
    \/ \E t \in Threads : ThreadExit(t)

Waiting ==
    \/ \E t \in Threads, obj \in Threads, timeout \in Timeouts :
           \E sigs \in WaitInputs(t) : Wait(t, obj, sigs, timeout)
    \/ \E t \in Threads : WaitResume(t)

Signalling ==
    \/ \E t \in Threads, target \in Threads, sigs \in SignalMasks :
           Signal(t, target, sigs)
    \/ \E target \in Threads, sigs \in SignalMasks : IsrSignal(target, sigs)

SignalAdmin ==
    \/ \E t \in UserThreads, n \in SignalNumbers : AllocateSignal(t, t, n)
    \/ \E t \in UserThreads, sigs \in SignalMasks : FreeSignals(t, t, sigs)
    \/ \E t \in UserThreads, sigs \in SignalMasks : ClearSignals(t, t, sigs)

Gate ==
    \/ \E t \in Threads : Forbid(t)
    \/ \E t \in Threads : Permit(t)

Next ==
    \/ Boot
    \/ Lifecycle
    \/ Waiting
    \/ Signalling
    \/ SignalAdmin
    \/ Gate
    \/ TickA
    \/ TickB

Spec == Init /\ [][Next]_vars

TypeOK ==
    /\ currentThread \in AllThreads \cup {NULL}
    /\ activeListNum \in 0 .. 1
    /\ \A t \in AllThreads : timeoutOffset[t] \in 0 .. MaxTimeout
    /\ \A t \in AllThreads : ticksRemaining[t] \in 0 .. QUANTUM_TICKS

\* ------------------------------------------------------------------------
\* List membership
\* ------------------------------------------------------------------------
Occurrences(l, t) == Cardinality({i \in 1 .. Len(l) : l[i] = t})

InActive(t) == InList(readyLists[activeListNum], t)
InExpired(t) == InList(readyLists[1 - activeListNum], t)
InTimeout(t) == InList(timeoutList, t)
InPool(t) == InList(poolThreadList, t)

\* The number of intrusive lists thread t is linked into
ListCount(t) ==
    (IF InActive(t) THEN 1 ELSE 0) + (IF InExpired(t) THEN 1 ELSE 0)
    + (IF InTimeout(t) THEN 1 ELSE 0) + (IF InPool(t) THEN 1 ELSE 0)

\* C1: every thread is a member of at most one of the four intrusive lists
\* (active ready, expired ready, timeout, pool) and occurs at most once in
\* it, whatever the sequence of creations, waits, signals, ticks, fromPool
\* calls and exits.
C1_AtMostOneList ==
    \A t \in Threads :
        /\ ListCount(t) <= 1
        /\ Occurrences(readyLists[0], t) <= 1
        /\ Occurrences(readyLists[1], t) <= 1
        /\ Occurrences(timeoutList, t) <= 1
        /\ Occurrences(poolThreadList, t) <= 1

\* ------------------------------------------------------------------------
\* Waking by signal()
\* ------------------------------------------------------------------------

\* This step is a call of signal() on target (by a thread or by an ISR)
SignalCall(target) ==
    \E sigs \in SignalMasks :
        \/ IsrSignal(target, sigs)
        \/ \E t \in Threads : Signal(t, target, sigs)

\* C4: whenever signal() wakes a thread (the target is not the current
\* thread, had no active waited signal before the call and has one after
\* it), then on return the target is the head of the active ready list, is
\* not a member of the timeout list and its timeoutOffset is 0, wherever it
\* sat in the timeout list.
C4_WokenTargetLeavesTimeoutList ==
    [][\A target \in Threads :
          (/\ currentThread # target
           /\ currentSignals[target] \cap waitingSignals[target] = {}
           /\ currentSignals'[target] \cap waitingSignals'[target] # {}
           /\ SignalCall(target))
          => /\ getHead(readyLists'[activeListNum']) = target
             /\ ~InList(timeoutList', target)
             /\ timeoutOffset'[target] = 0]_vars

\* C3: a wait with timeout d > 0 that returns with TIMEOUT in its mask
\* returns when at least d millisecond ticks have passed since the call
\* (none is still due).
C3_TimeoutNotEarly ==
    (returned.thread # NULL /\ SIG_TIMEOUT \subseteq returned.mask)
        => returned.due = 0

\* ------------------------------------------------------------------------
\* Signal masks
\* ------------------------------------------------------------------------
Live(t) == life[t] = "live"

Blocked(t) == Live(t) /\ pc[t] \in {"wait", "stopped"}

\* The waiting mask wait(sigs, timeout) builds for thread t
WaitingMask(t, sigs, timeout) ==
    ((sigs \cup SIG_STOP) \cup (IF timeout # 0 THEN SIG_TIMEOUT ELSE {}))
        \cap allocatedSignals[t]

\* C6: no lost wake-up.  A thread blocked in wait() whose current and
\* waiting masks intersect is the current thread or sits in a ready list;
\* and a wait() that finds one of its signals already set returns it at
\* once, without blocking.
C6_NoLostWakeup ==
    /\ [](\A t \in Threads :
             (Blocked(t) /\ currentSignals[t] \cap waitingSignals[t] # {})
                 => currentThread = t \/ InActive(t) \/ InExpired(t))
    /\ [][\A t \in Threads, timeout \in Timeouts : \A sigs \in WaitInputs(t) :
             (/\ Running(t)
              /\ currentSignals[t] \cap WaitingMask(t, sigs, timeout) # {}
              /\ SIG_STOP \cap currentSignals[t] = {}
              /\ Wait(t, t, sigs, timeout))
             => /\ pc'[t] = "run"
                /\ returned'.thread = t
                /\ returned'.mask =
                      currentSignals[t] \cap WaitingMask(t, sigs, timeout)
                /\ currentThread' = t]_vars

\* A blocked thread that has been signalled and waits in the active list
\* for the processor
C6_Witness ==
    \E t \in Threads :
        /\ Blocked(t) /\ currentSignals[t] \cap waitingSignals[t] # {}
        /\ currentThread # t /\ InActive(t)

\* ------------------------------------------------------------------------
\* forbid() and permit()
\* ------------------------------------------------------------------------

\* The sleeper at the head of the timeout list expires at the next tick
HeadExpires ==
    timeoutList # <<>> /\ timeoutOffset[getHead(timeoutList)] <= 1

\* C7: while switching is disabled by forbid(), a preemption tick (ISR B)
\* changes neither the current thread nor the ready lists; a time tick
\* (ISR A) still increments the millisecond counter and fires the timeout
\* of the sleeper that is due; and a wait() of the current thread that
\* blocks still yields the processor to another thread.
C7_ForbidSuppressesPreemption ==
    /\ [][(~switchingEnabled /\ TickB) =>
             UNCHANGED <<currentThread, readyLists, activeListNum>>]_vars
    /\ [][(~switchingEnabled /\ TickA) =>
             /\ milliseconds' = (milliseconds + 1) % MsModulus
             /\ HeadExpires =>
                  LET h == getHead(timeoutList)
                  IN /\ ~InList(timeoutList', h)
                     /\ Live(h) => SIG_TIMEOUT \subseteq currentSignals'[h]]_vars
    /\ [][\A t \in Threads, timeout \in Timeouts : \A sigs \in WaitInputs(t) :
             (/\ ~switchingEnabled
              /\ Running(t)
              /\ Wait(t, t, sigs, timeout)
              /\ pc'[t] = "wait")
             => currentThread' # t]_vars

\* Forbid is in force, the running thread has used up its quantum and is
\* not the head of the active list (a preemption tick would switch), and a
\* sleeper is about to expire
C7_Witness ==
    /\ ~switchingEnabled
    /\ currentThread \in Threads /\ pc[currentThread] = "run"
    /\ ticksRemaining[currentThread] = 0
    /\ getHead(readyLists[activeListNum]) \notin {NULL, currentThread}
    /\ HeadExpires

\* signal() wakes target in this step
Wakes(target) ==
    /\ currentThread # target
    /\ currentSignals[target] \cap waitingSignals[target] = {}
    /\ currentSignals'[target] \cap waitingSignals'[target] # {}
    /\ SignalCall(target)

\* This step is a cooperative yield of the running thread: a wait() that
\* blocks, or the exit of the thread
CooperativeYield ==
    \E t \in Threads :
        /\ Running(t)
        /\ \/ ThreadExit(t)
           \/ \E timeout \in Timeouts : \E sigs \in WaitInputs(t) :
                  Wait(t, t, sigs, timeout)

\* C8: a signal() issued while forbid is in force still sets the target's
\* current bits and moves a woken target to the head of the active ready
\* list; while switching is disabled the current thread changes only by a
\* cooperative yield of the running thread; and with switching enabled a
\* preemption tick makes the head of the active list the current thread
\* when it is another thread.
C8_SignalUnderForbid ==
    /\ [][\A target \in Threads :
             (~switchingEnabled /\ Wakes(target))
             => /\ getHead(readyLists'[activeListNum']) = target
                /\ currentThread' = currentThread]_vars
    /\ [][\A target \in Threads, sigs \in SignalMasks :
             (~switchingEnabled /\ IsrSignal(target, sigs))
             => currentSignals'[target] =
                   currentSignals[target]
                       \cup (sigs \cap allocatedSignals[target])]_vars
    /\ [][(~switchingEnabled /\ Started /\ currentThread' # currentThread)
             => CooperativeYield]_vars
    /\ [][(/\ switchingEnabled
           /\ getHead(readyLists[activeListNum]) \notin {NULL, currentThread}
           /\ TickB)
          => currentThread' = getHead(readyLists[activeListNum])]_vars

\* Forbid is in force and a thread woken by a signal sits at the head of the
\* active list while another thread is still the current one
C8_Witness ==
    /\ ~switchingEnabled
    /\ currentThread \in Threads /\ pc[currentThread] = "run"
    /\ \E target \in Threads :
          /\ target # currentThread
          /\ getHead(readyLists[activeListNum]) = target
          /\ Blocked(target)
          /\ currentSignals[target] \cap waitingSignals[target] # {}

\* ------------------------------------------------------------------------
\* Stack overflow detection
\* ------------------------------------------------------------------------
Stack == \E t \in Threads, v \in SpValues : UseStack(t, v)

\* The scheduler with threads whose stack pointers move
NextStack ==
    \/ Boot
    \/ Lifecycle
    \/ Waiting
    \/ Stack
    \/ TickA
    \/ TickB

SpecStack == Init /\ [][NextStack]_vars

\* C9: onStackOverflow fires once per breach: a context save invokes the
\* hook only if the stack pointer it has just saved is below the lower
\* bound of the thread's stack; a later save of the same thread with the
\* stack pointer back within bounds does not invoke it again.
C9_HookOnlyOnBreach ==
    hookCalled # NULL => sp[hookCalled] < StackBottom

\* ------------------------------------------------------------------------
\* Paged allocator: the model on its own
\* ------------------------------------------------------------------------
Allocate(pages, strat) ==
    LET a == allocate(memoryMap, pages, strat)
    IN /\ memoryMap' = a.map
       /\ lastAlloc' = [base |-> a.base, pages |-> a.pages]
       /\ held' = IF a.base = NULL THEN held
                  ELSE held \cup {[base |-> a.base, pages |-> a.pages]}
       /\ UNCHANGED <<kvars, avars>>

Free(r) ==
    /\ r \in held
    /\ memoryMap' = free(memoryMap, r)
    /\ held' = held \ {r}
    /\ UNCHANGED <<lastAlloc, kvars, avars>>

RequestPages == 1 .. PageCount

NextPM ==
    \/ \E pages \in RequestPages, strat \in SearchStrategy :
           Allocate(pages, strat)
    \/ \E r \in held : Free(r)

SpecPM == InitPM /\ [][NextPM]_vars

\* C10: a successful allocation returns a page range disjoint from every
\* region handed out earlier and not yet freed; equivalently, the run the
\* search returns contains no page whose bitmap bit is set.
C10_AllocationsDisjoint ==
    [][\A pages \in RequestPages, strat \in SearchStrategy :
          (Allocate(pages, strat) /\ lastAlloc'.base # NULL)
          => /\ \A r \in held : PagesOf(r) \cap PagesOf(lastAlloc') = {}
             /\ \A q \in PagesOf(lastAlloc') :
                   q \in 0 .. (PAGE_COUNT - 1) /\ ~memoryMap[q]
             /\ lastAlloc'.pages = pages]_vars

\* An allocation has succeeded while another region is held and a hole
\* lies between used pages
C10_Witness ==
    /\ lastAlloc.base # NULL /\ lastAlloc \in held
    /\ Cardinality(held) >= 2
    /\ \E q \in 1 .. (PAGE_COUNT - 2) :
          ~memoryMap[q] /\ memoryMap[q - 1] /\ memoryMap[q + 1]

\* The first pages of the runs of k contiguous free pages of bitmap m
FreeRuns(m, k) ==
    {b \in 0 .. (PAGE_COUNT - k) : \A q \in b .. (b + k - 1) : ~m[q]}

\* Bitmap m has no used page
EmptyHeap(m) == \A q \in 0 .. (PAGE_COUNT - 1) : ~m[q]

\* C11: for a request of k pages, BottomUp returns the lowest-indexed run
\* of k contiguous free pages and TopDown the highest-indexed such run, both
\* reporting the lowest page of the run as base; on an empty heap of N pages
\* a one-page TopDown allocation has base N-1 and a following one-page
\* BottomUp allocation has base 0.
C11_StrategyPicksExtremeRun ==
    [][/\ \A pages \in RequestPages :
            LET runs == FreeRuns(memoryMap, pages)
            IN runs # {} =>
                 /\ Allocate(pages, BottomUp) =>
                        /\ lastAlloc'.base \in runs
                        /\ \A b \in runs : lastAlloc'.base <= b
                 /\ Allocate(pages, TopDown) =>
                        /\ lastAlloc'.base \in runs
                        /\ \A b \in runs : lastAlloc'.base >= b
       /\ (EmptyHeap(memoryMap) /\ Allocate(1, TopDown)) =>
             /\ lastAlloc'.base = PAGE_COUNT - 1
             /\ allocate(memoryMap', 1, BottomUp).base = 0]_vars

\* One page has been allocated TopDown and then one page BottomUp from the
\* empty heap
C11_Witness ==
    /\ PAGE_COUNT >= 2
    /\ held = {[base |-> PAGE_COUNT - 1, pages |-> 1],
               [base |-> 0, pages |-> 1]}
    /\ lastAlloc = [base |-> 0, pages |-> 1]

\* C12: an allocation fails (the page search returns -1, the caller gets a
\* null base and size 0) if and only if the bitmap has no run of the
\* required number of contiguous free pages; a failed allocation leaves the
\* bitmap and the used-page count unchanged.
C12_FailsIffNoRun ==
    [][\A pages \in RequestPages, strat \in SearchStrategy :
          Allocate(pages, strat) =>
             LET norun == FreeRuns(memoryMap, pages) = {}
             IN /\ (findFreePages(memoryMap, pages, strat) = -1) <=> norun
                /\ (lastAlloc'.base = NULL) <=> norun
                /\ (lastAlloc'.pages = 0) <=> norun
                /\ norun =>
                      /\ memoryMap' = memoryMap
                      /\ getUsedPageCount(memoryMap') =
                             getUsedPageCount(memoryMap)]_vars

\* An allocation has failed although two pages are free, because they are
\* not contiguous
C12_Witness ==
    /\ lastAlloc = [base |-> NULL, pages |-> 0]
    /\ held # {}
    /\ getFreePageCount(memoryMap) >= 2
    /\ FreeRuns(memoryMap, 2) = {}

\* The number of pages of a set of regions
RECURSIVE PagesHeld(_)
PagesHeld(rs) ==
    IF rs = {} THEN 0
    ELSE LET r == CHOOSE x \in rs : TRUE
         IN r.pages + PagesHeld(rs \ {r})

\* C13: round trip: the used-page count is the number of pages of the
\* regions allocated and not yet freed, so that after any sequence of
\* successful allocations, each matched by a free of the same base and
\* length, in any order and with both strategies, it is back at its initial
\* value; and used + free = total throughout.
C13_RoundTrip ==
    /\ getUsedPageCount(memoryMap) = PagesHeld(held)
    /\ held = {} => getUsedPageCount(memoryMap) = 0
    /\ getUsedPageCount(memoryMap) + getFreePageCount(memoryMap)
           = getTotalPageCount

\* Every region has been freed again after allocations of both strategies
C13_Witness ==
    /\ held = {}
    /\ lastAlloc.base # NULL
    /\ lastAlloc.base > 0
    /\ EmptyHeap(memoryMap)

\* ------------------------------------------------------------------------
\* Timeout against signal
\* ------------------------------------------------------------------------

\* Thread t's wait on the one user signal u with a timeout returns in this
\* step: at once, or when t is given the processor again
TimedWaitReturns(t, u) ==
    /\ \/ \E timeout \in Timeouts \ {0} :
              /\ Running(t) /\ u \in allocatedSignals[t]
              /\ Wait(t, t, {u}, timeout)
       \/ /\ currentThread = t /\ pc[t] = "wait"
          /\ waitingSignals[t] \ SIG_STOP = {u} \cup SIG_TIMEOUT
          /\ WaitResume(t)
    /\ returned'.thread = t

\* C14: when thread T waits on USER1 with a timeout and USER1 is signalled
\* on the tick at which the timeout expires, in either order relative to
\* ISR A, the mask T's wait returns is one of {USER1}, {TIMEOUT},
\* {USER1, TIMEOUT}, and USER1 is clear in T's current signals once the
\* wait has returned.
C14_TimeoutSignalRace ==
    [][\A t \in Threads, u \in UserBits :
          TimedWaitReturns(t, u) =>
             /\ returned'.mask \in {{u}, SIG_TIMEOUT, {u} \cup SIG_TIMEOUT}
             /\ u \notin currentSignals'[t]]_vars

\* ------------------------------------------------------------------------
\* Stop and restart
\* ------------------------------------------------------------------------
Stopping ==
    \/ \E t \in Threads, target \in Threads : Stop(t, target)
    \/ \E t \in Threads, target \in Threads : Restart(t, target)

\* Threads that wait without timeout on their own signals, signal, stop and
\* restart one another, under the preemption timer
NextStop ==
    \/ Boot
    \/ Lifecycle
    \/ \E t \in Threads : \E sigs \in WaitInputs(t) : Wait(t, t, sigs, 0)
    \/ \E t \in Threads : WaitResume(t)
    \/ Signalling
    \/ \E t \in UserThreads : AllocateSignal(t, t, NUM_RESERVED_SIGS)
    \/ Stopping
    \/ TickB

SpecStop == Init /\ [][NextStop]_vars

\* Thread t is inside a wait() whose waiting mask contains the bits of mask
InWaitOn(t, mask) == Blocked(t) /\ mask \subseteq waitingSignals[t]

\* No bit of any current mask is set and no thread moves in or between
\* lists
NoEffect ==
    UNCHANGED <<currentSignals, readyLists, activeListNum, timeoutList,
                poolThreadList, timeoutOffset>>

\* C17: stop() and restart() do nothing (no bit of current is set, no
\* thread moves in or between lists) unless the target is blocked in a wait
\* whose effective mask contains STOP, respectively START; in particular
\* stop() on a thread that has returned from its last wait has no effect.
C17_StopRestartOnlyWhenWaiting ==
    [][\A t \in Threads, target \in Threads :
          /\ (~InWaitOn(target, SIG_STOP) /\ Stop(t, target)) => NoEffect
          /\ (~InWaitOn(target, SIG_START) /\ Restart(t, target))
                => NoEffect]_vars

\* Thread t, blocked in a wait on user signals, has been sent STOP and is
\* given the processor
StopTaken(t) ==
    /\ currentThread = t /\ Live(t) /\ pc[t] = "wait"
    /\ waitingSignals[t] \cap UserBits # {}
    /\ SIG_STOP \subseteq getActiveSignals(K, t)

\* Thread t is blocked on START after a STOP
Stopped(t) == Live(t) /\ pc[t] = "stopped" /\ currentThread # t

\* C15: a thread T looping on wait(USER1) that receives stop() while
\* blocked becomes blocked on START only: its waiting mask is START and its
\* wait does not return to the caller.  A subsequent restart() makes T
\* runnable, and T's next wait(USER1) blocks again with USER1 and the
\* implicit STOP in its waiting mask.
C15_StopThenRestart ==
    [][\A t \in UserThreads :
          /\ (StopTaken(t) /\ WaitResume(t)) =>
                 /\ pc'[t] = "stopped"
                 /\ waitingSignals'[t] = SIG_START
                 /\ returned'.thread # t
          /\ \A c \in Threads :
                (Stopped(t) /\ currentSignals[t] \cap SIG_START = {}
                   /\ Restart(c, t)) =>
                     /\ getHead(readyLists'[activeListNum']) = t
                     /\ SIG_START \subseteq currentSignals'[t]
          /\ (pc[t] = "stopped" /\ WaitResume(t)) =>
                 /\ pc'[t] = "run"
                 /\ returned'.thread = t
                 /\ SIG_STOP \subseteq returned'.mask
          /\ \A u \in UserBits :
                (u \in allocatedSignals[t] /\ u \notin currentSignals[t]
                   /\ SIG_STOP \cap currentSignals[t] = {}
                   /\ Running(t) /\ Wait(t, t, {u}, 0)) =>
                     /\ pc'[t] = "wait"
                     /\ waitingSignals'[t] = {u} \cup SIG_STOP]_vars

\* C16: a signal(USER1) sent to a thread while it is stopped (blocked on
\* START after a STOP) does not wake it and is not lost: the bit is set in
\* current, stays set while the thread is stopped and after restart() until
\* the thread waits, and is returned by its first wait(USER1) (at once, or
\* when that wait itself runs into a STOP, once it is restarted).
C16_SignalWhileStoppedLatched ==
    [][\A t \in UserThreads, u \in UserBits :
          /\ (Stopped(t) /\ u \in allocatedSignals[t]
                /\ \E sigs \in SignalMasks :
                      u \in sigs /\ (\/ IsrSignal(t, sigs)
                                     \/ \E c \in Threads : Signal(c, t, sigs)))
             => /\ u \in currentSignals'[t]
                /\ pc'[t] = "stopped"
                /\ UNCHANGED <<readyLists, activeListNum, timeoutList,
                               currentThread>>
          /\ (Live(t) /\ pc[t] = "stopped" /\ u \in currentSignals[t])
             => u \in currentSignals'[t]
          /\ (Live(t) /\ pc[t] = "run" /\ u \in currentSignals[t]
                /\ ~Running(t))
             => u \in currentSignals'[t]
          /\ (Running(t) /\ u \in currentSignals[t]
                /\ \E sigs \in WaitMasks : u \in sigs /\ Wait(t, t, sigs, 0))
             => \/ returned'.thread = t /\ u \in returned'.mask
                \/ pc'[t] = "stopped" /\ u \in rc'[t]
          /\ (pc[t] = "stopped" /\ WaitResume(t))
             => returned'.thread = t /\ returned'.mask = rc[t]]_vars

\* A user signal is latched in the current mask of a stopped thread
C16_Witness ==
    \E t \in UserThreads :
        /\ Stopped(t)
        /\ waitingSignals[t] = SIG_START
        /\ currentSignals[t] \cap UserBits # {}
        /\ ~InActive(t) /\ ~InExpired(t)

\* ------------------------------------------------------------------------
\* Thread pool
\* ------------------------------------------------------------------------

\* Descriptor r has been reset: reserved signals only, nothing waited for,
\* nothing pending, no timeout, ready to run its entry function
FreshlyReset(r) ==
    /\ allocatedSignals'[r] = SIG_ALL_RESERVED
    /\ waitingSignals'[r] = {}
    /\ currentSignals'[r] = {}
    /\ timeoutOffset'[r] = 0
    /\ life'[r] = "live" /\ pc'[r] = "run"

JobsRunning == {p \in PoolThreads : life[p] = "live"}

\* The pages in use once every job has completed: the stacks taken by
\* preMain() and those of the user threads that exist
PagesAfterBoot ==
    getUsedPageCount(BootHeap.memoryMap)
        + StackPages * Cardinality({u \in UserThreads : life[u] = "live"})

C20_CurrentWithinAllocated ==
    /\ [](\A t \in AllThreads : currentSignals[t] \subseteq allocatedSignals[t])
    /\ [][/\ \A target \in Threads, sigs \in SignalMasks :
                ((\E c \in Threads : Signal(c, target, sigs))
                   \/ IsrSignal(target, sigs))
                => currentSignals' =
                      [currentSignals EXCEPT ![target] =
                          @ \cup (sigs \cap allocatedSignals[target])]
          /\ \A t \in UserThreads, sigs \in SignalMasks :
                FreeSignals(t, t, sigs)
                => currentSignals'[t] = currentSignals[t] \ sigs]_vars

\* A thread holds a pending user signal while another live thread, which
\* has allocated no user signal, holds none
C20_Witness ==
    \E t \in Threads, o \in Threads :
        /\ Live(t) /\ currentSignals[t] \cap UserBits # {}
        /\ Live(o) /\ allocatedSignals[o] = SIG_ALL_RESERVED
        /\ currentSignals[o] \cap UserBits = {}

\* ------------------------------------------------------------------------
\* Signal liveness
\* ------------------------------------------------------------------------

\* ------------------------------------------------------------------------
\* Signal allocation: one thread that allocates, frees, waits for and is
\* sent every signal of the bit field
\* ------------------------------------------------------------------------
\* Every bit number, one number beyond the bit field, and the default
AllSignalNumbers == (0 .. SIGNAL_BITS) \cup {AutoSignal}

NextSig ==
    \/ Boot
    \/ \E t \in UserThreads, n \in AllSignalNumbers : AllocateSignal(t, t, n)
    \/ \E t \in UserThreads, sigs \in SUBSET AllBits : FreeSignals(t, t, sigs)
    \/ \E t \in UserThreads, sigs \in SUBSET UserBits : Wait(t, t, sigs, 0)
    \/ \E t \in Threads : WaitResume(t)
    \/ \E target \in Threads, sigs \in (SUBSET UserBits) \ {{}} :
           IsrSignal(target, sigs)
    \/ TickB

SpecSig == Init /\ [][NextSig]_vars

\* C21: allocateSignal(n) with an in-range n returns the single-bit mask of
\* n and sets that bit in allocated if and only if the bit was free,
\* otherwise it returns 0 and changes nothing; auto-allocation returns the
\* lowest-numbered free non-reserved bit and sets it, and returns 0 without
\* change when every non-reserved bit is allocated.  No call returns a
\* reserved bit, a multi-bit mask, or a bit that was already allocated.
C21_AllocateSignal ==
    \A t \in Threads : Known(t) =>
        /\ \A n \in AllBits :
               IF n \notin allocatedSignals[t]
               THEN /\ allocateSignalMask(K, t, n) = {n}
                    /\ allocateSignal(K, t, n) =
                           [K EXCEPT !.allocatedSignals[t] = @ \cup {n}]
               ELSE /\ allocateSignalMask(K, t, n) = {}
                    /\ allocateSignal(K, t, n) = K
        /\ LET avail == UserBits \ allocatedSignals[t]
           IN IF avail # {}
              THEN \E b \in avail :
                       /\ \A c \in avail : b <= c
                       /\ allocateSignalMask(K, t, AutoSignal) = {b}
                       /\ allocateSignal(K, t, AutoSignal) =
                              [K EXCEPT !.allocatedSignals[t] = @ \cup {b}]
              ELSE /\ allocateSignalMask(K, t, AutoSignal) = {}
                   /\ allocateSignal(K, t, AutoSignal) = K
        /\ \A n \in AllSignalNumbers :
               /\ Cardinality(allocateSignalMask(K, t, n)) <= 1
               /\ allocateSignalMask(K, t, n) \cap SIG_ALL_RESERVED = {}
               /\ allocateSignalMask(K, t, n) \cap allocatedSignals[t] = {}

\* A thread holds a higher user signal while a lower one is free (it has
\* allocated both and freed the lower), and a thread holds every user
\* signal
C21_Witness ==
    \E t \in UserThreads :
        /\ Running(t)
        /\ \E b \in UserBits, c \in UserBits :
               b < c /\ b \notin allocatedSignals[t] /\ c \in allocatedSignals[t]

\* The bit numbers beyond the bit field other than the default
OutOfRange == AllSignalNumbers \ (AllBits \cup {AutoSignal})

\* C22: allocateSignal for an out-of-range bit number other than the auto
\* request returns 0 and leaves allocated unchanged; freeSignals asked to
\* free reserved bits leaves those bits allocated.
C22_InvalidSignalNoOp ==
    /\ [][\A t \in UserThreads, n \in OutOfRange :
             AllocateSignal(t, t, n) =>
                 /\ allocateSignalMask(K, t, n) = {}
                 /\ UNCHANGED allocatedSignals]_vars
    /\ [][\A t \in UserThreads, sigs \in SUBSET AllBits :
             FreeSignals(t, t, sigs) =>
                 allocatedSignals'[t] \cap SIG_ALL_RESERVED =
                     allocatedSignals[t] \cap SIG_ALL_RESERVED]_vars

\* Waiting on its own: threads that wait, with and without timeout, on
\* their own and on other threads' descriptors, and are woken by interrupt
\* handlers and by the timers
NextWait ==
    \/ Boot
    \/ Lifecycle
    \/ Waiting
    \/ \E target \in Threads, sigs \in SignalMasks : IsrSignal(target, sigs)
    \/ \E t \in UserThreads : AllocateSignal(t, t, NUM_RESERVED_SIGS)
    \/ TickA
    \/ TickB

SpecWait == Init /\ [][NextWait]_vars

\* C23: wait() invoked on a thread object other than the running thread
\* returns 0 immediately and changes nothing: the target's waiting, current
\* and timeoutOffset, all lists and the current-thread slot are unchanged,
\* and the caller does not yield.
C23_WaitByWrongThread ==
    [][\A t \in Threads, obj \in Threads, timeout \in Timeouts :
         \A sigs \in WaitInputs(t) :
             (obj # t /\ Wait(t, obj, sigs, timeout)) =>
                 /\ returned' = [thread |-> t, mask |-> {}, due |-> 0]
                 /\ UNCHANGED <<waitingSignals, currentSignals,
                                timeoutOffset, allocatedSignals, readyLists,
                                timeoutList, poolThreadList, activeListNum,
                                currentThread, pc, rc, due, ticksRemaining,
                                switchingEnabled, life>>]_vars

\* A running thread that has never waited itself has just got 0 from a
\* wait(): it called wait() on another thread's descriptor
C23_Witness ==
    \E t \in Threads :
        /\ Running(t)
        /\ waitingSignals[t] = {}
        /\ returned = [thread |-> t, mask |-> {}, due |-> 0]

\* The kernel state after forbid(); forbid(); permit(); permit()
ForbidTwicePermitTwice == permit(permit(forbid(forbid(K))))

\* C24, as claimed: forbid() twice and then permit() twice restore the
\* switching state that held before the four calls, for every initial
\* switching state, enabled or disabled.
C24_ForbidPermitRestores == ForbidTwicePermitTwice = K

\* C24, as the code has it: forbid() twice and then permit() twice leave
\* switching enabled and change nothing else, so they restore the initial
\* state exactly when switching was enabled before the four calls.
C24_ForbidPermitEnables ==
    /\ ForbidTwicePermitTwice = [K EXCEPT !.switchingEnabled = TRUE]
    /\ (ForbidTwicePermitTwice = K) <=> switchingEnabled

\* A thread runs with switching disabled: it has called forbid()
C24_Witness == \E t \in Threads : Running(t) /\ ~switchingEnabled

\* C25: freeSignals is idempotent: for every thread state and every mask
\* S, calling freeSignals(S) twice leaves allocated, waiting and current as
\* one call does, and one call clears exactly the non-reserved bits of S
\* from all three fields and leaves every other bit unchanged.
C25_FreeSignalsIdempotent ==
    \A t \in Threads : Known(t) =>
        \A S \in SUBSET AllBits :
            /\ freeSignals(freeSignals(K, t, S), t, S) = freeSignals(K, t, S)
            /\ freeSignals(K, t, S) =
                   [K EXCEPT
                      !.allocatedSignals[t] = @ \ (S \ SIG_ALL_RESERVED),
                      !.waitingSignals[t] = @ \ (S \ SIG_ALL_RESERVED),
                      !.currentSignals[t] = @ \ (S \ SIG_ALL_RESERVED)]

\* A thread that has given back one user signal holds another that is set
\* in all three fields, next to reserved bits in waiting
C25_Witness ==
    \E t \in UserThreads : \E b \in UserBits, c \in UserBits :
        /\ Running(t)
        /\ b \notin allocatedSignals[t]
        /\ c \in allocatedSignals[t] \cap waitingSignals[t]
                                      \cap currentSignals[t]
        /\ waitingSignals[t] \cap SIG_ALL_RESERVED # {}

\* The number of places thread t is in: the four lists and the
\* currently-running slot
PlaceCount(t) == ListCount(t) + (IF currentThread = t THEN 1 ELSE 0)

\* C26: in every reachable state each thread is in exactly one of five
\* places: the active ready list, the expired ready list, the timeout list,
\* the pool list, or the currently-running slot, never in two of them and
\* never in none.
C26_ExactlyOnePlace ==
    \A t \in Threads : life[t] # "none" => PlaceCount(t) = 1

\* ------------------------------------------------------------------------
\* Alternation: two threads that toggle and sleep, against the two timer
\* interrupts
\* ------------------------------------------------------------------------
\* The scenario: each thread loops over toggle; delay( DelayMs ), and the
\* run is RunMs milliseconds long
DelayMs == 10
RunMs == 1000
AltThreads == (NumPoolThreads + 1) .. (NumPoolThreads + 2)
TimerInterrupts == {"A", "B"}

\* One pass of the loop body of thread t: toggle, then delay( DelayMs ),
\* which is wait( 0, DelayMs )
ToggleDelay(t) ==
    /\ Running(t)
    /\ t \in AltThreads
    /\ Become(wait(K0, t, t, {}, DelayMs))
    /\ toggles' = [toggles EXCEPT ![t] = @ + 1]
    /\ UNCHANGED <<held, lastAlloc, elapsed, fired, xvars, ivars>>

\* Timer0 runs in CTC mode with OCR0A = OCR0B = 1 ms: both compare
\* interrupts are raised once in every millisecond.  The loop body takes
\* far less than a millisecond, so an interrupt finds the threads asleep
\* and the idle thread running.  The millisecond is over when both
\* interrupts have been served.
TimerFires(i) ==
    /\ Started
    /\ currentThread = Idle
    /\ elapsed < RunMs
    /\ i \notin fired
    /\ Become(IF i = "A" THEN TIMER0_COMPA_vect(K0)
                         ELSE TIMER0_COMPB_vect(K0))
    /\ fired' = IF fired \cup {i} = TimerInterrupts THEN {} ELSE fired \cup {i}
    /\ elapsed' = IF fired \cup {i} = TimerInterrupts THEN elapsed + 1
                  ELSE elapsed
    /\ UNCHANGED <<held, lastAlloc, toggles, xvars, ivars>>

NextAlt ==
    \/ \E u \in AltThreads, tk \in InitialTicks :
           /\ \A v \in AltThreads : v < u => life[v] # "none"
           /\ MainNewThread(u, tk)
    \/ (\A u \in AltThreads : life[u] # "none") /\ PostMain
    \/ \E t \in AltThreads : ToggleDelay(t)
    \/ \E t \in AltThreads : WaitResume(t)
    \/ \E i \in TimerInterrupts : TimerFires(i)

SpecAlt == Init /\ [][NextAlt]_vars

\* C27: alternation: with exactly two threads that each loop forever
\* toggling a boolean and calling delay(10), after 1,000 millisecond ticks
\* each thread has completed between 45 and 55 toggles.
C27_Alternation ==
    elapsed = RunMs =>
        \A t \in AltThreads : toggles[t] >= 45 /\ toggles[t] <= 55

\* The sum of the stored offsets of the first i nodes of the timeout list
RECURSIVE OffsetSum(_)
OffsetSum(i) ==
    IF i = 0 THEN 0 ELSE OffsetSum(i - 1) + timeoutOffset[timeoutList[i]]

\* C28: for every thread in the timeout list, the sum of the stored offsets
\* from the head of the list up to and including that thread equals the
\* thread's remaining time to expiry (its requested timeout minus the
\* number of ISR A ticks since it was inserted), after any interleaving of
\* insertions by yield from timed waits, decrements and removals by ISR A,
\* and removals by signal().
C28_OffsetSumIsRemainingTime ==
    \A i \in 1 .. Len(timeoutList) : OffsetSum(i) = due[timeoutList[i]]

\* ------------------------------------------------------------------------
\* The preemption tick
\* ------------------------------------------------------------------------
\* The current thread's ticksRemaining after the decrement and the
\* head-of-list check of ISR B
TicksAfterCheck ==
    IF currentThread # getHead(readyLists[activeListNum]) THEN 0
    ELSE IF ticksRemaining[currentThread] > 0
         THEN ticksRemaining[currentThread] - 1 ELSE 0

\* This step does not switch: the current thread and the ready lists are
\* as they were
NotSwitched ==
    UNCHANGED <<currentThread, readyLists, activeListNum>>

\* This step moves the current thread from the active to the expired list
\* (unless it is the idle thread), selects the next thread and sets its
\* ticksRemaining to QUANTUM_TICKS if it was 0
Switched ==
    LET c == currentThread
        s2 == [K EXCEPT !.ticksRemaining[c] = 0]
        s4 == IF c # Idle
              THEN [s2 EXCEPT
                      !.readyLists[activeListNum] = ListRemove(@, c),
                      !.readyLists[1 - activeListNum] = ListAppend(@, c)]
              ELSE s2
        n == selectNextThread(s4)
    IN /\ readyLists' = n.s.readyLists
       /\ activeListNum' = n.s.activeListNum
       /\ currentThread' = n.rc
       /\ ticksRemaining' =
              [s4.ticksRemaining EXCEPT
                 ![n.rc] = IF @ = 0 THEN QUANTUM_TICKS ELSE @]

\* C29, as claimed: at each preemption tick with a current thread, after
\* the decrement and the head-of-list check, the handler returns without
\* switching if ticksRemaining > 0 and switching is enabled; in every
\* other case it moves the current thread from the active to the expired
\* list (unless it is the idle thread), selects the next thread, and sets
\* that thread's ticksRemaining to QUANTUM_TICKS if it was 0.
C29_PreemptionTick ==
    [][TickB =>
         IF TicksAfterCheck > 0 /\ switchingEnabled
         THEN NotSwitched
         ELSE Switched]_vars

\* C29, as the code has it: the handler returns without switching if
\* ticksRemaining > 0 after the decrement and the head-of-list check or if
\* switching is disabled; only with ticksRemaining = 0 and switching
\* enabled does it move the current thread from the active to the expired
\* list (unless it is the idle thread), select the next thread and set
\* that thread's ticksRemaining to QUANTUM_TICKS if it was 0.
C29_PreemptionTickUnlessForbidden ==
    [][TickB =>
         IF TicksAfterCheck > 0 \/ ~switchingEnabled
         THEN NotSwitched
         ELSE Switched]_vars

\* ISR B has sent a thread to the expired list and given the thread it
\* selected a fresh quantum
C29_Witness ==
    /\ Started /\ switchingEnabled
    /\ readyLists[1 - activeListNum] # <<>>
    /\ currentThread \in Threads
    /\ ticksRemaining[currentThread] = QUANTUM_TICKS

\* With switching enabled, another thread than the current one is at the
\* head of the active list
Overtaken ==
    /\ Started /\ switchingEnabled
    /\ getHead(readyLists[activeListNum]) # NULL
    /\ currentThread # getHead(readyLists[activeListNum])

\* C30: priority by recency: with switching enabled, if at a preemption
\* tick the current thread is not the head of the active ready list (for
\* example because a signalled thread was prepended), then at that tick the
\* current thread's ticksRemaining is forced to 0, the current thread is
\* moved to the expired list (unless idle) and the head of the active list
\* becomes the current thread, whatever quantum the preempted thread had
\* left.
C30_PriorityByRecency ==
    [][(Overtaken /\ TickB) =>
         /\ ticksRemaining'[currentThread] = 0
         /\ currentThread' = getHead(readyLists[activeListNum])
         /\ activeListNum' = activeListNum
         /\ IF currentThread = Idle
            THEN UNCHANGED readyLists
            ELSE /\ readyLists'[activeListNum] =
                       ListRemove(readyLists[activeListNum], currentThread)
                 /\ readyLists'[1 - activeListNum] =
                       ListAppend(readyLists[1 - activeListNum],
                                  currentThread)]_vars

\* A running thread with a full quantum has been overtaken at the head of
\* the active list by a thread that signal() put there
C30_Witness ==
    /\ Overtaken
    /\ currentThread \in Threads
    /\ pc[currentThread] = "run"
    /\ ticksRemaining[currentThread] = QUANTUM_TICKS
    /\ pc[getHead(readyLists[activeListNum])] = "wait"

\* ------------------------------------------------------------------------
\* Selection of the next thread
\* ------------------------------------------------------------------------
\* selectNextThread() called in state s does what C31 says
SelectContract(s) ==
    LET n == selectNextThread(s)
    IN /\ IF ACTIVE_LIST(s) # <<>>
          THEN n.rc = ACTIVE_LIST(s)[1] /\ n.s = s
          ELSE /\ n.s = [s EXCEPT !.activeListNum = 1 - @]
               /\ n.rc = IF EXPIRED_LIST(s) # <<>>
                         THEN EXPIRED_LIST(s)[1] ELSE Idle
       /\ (n.rc = Idle) <=> (ACTIVE_LIST(s) = <<>> /\ EXPIRED_LIST(s) = <<>>)

\* The state in which ISR B calls selectNextThread() when it switches
Preempted ==
    IF currentThread = Idle THEN K
    ELSE [K EXCEPT
            !.readyLists[activeListNum] = ListRemove(@, currentThread),
            !.readyLists[1 - activeListNum] = ListAppend(@, currentThread)]

\* C31: selectNext returns the head of the active ready list when it is
\* non-empty (active index unchanged); otherwise it toggles the
\* active/expired index and returns the new active head; it returns the idle
\* thread if and only if both ready lists are empty.  The idle thread is
\* never a member of either ready list in any reachable state.
C31_SelectNext ==
    /\ SelectContract(K)
    /\ Started => SelectContract(yieldUnlink(K)) /\ SelectContract(Preempted)
    /\ ~InList(readyLists[0], Idle) /\ ~InList(readyLists[1], Idle)

\* The ready lists have been swapped and a thread taken from the former
\* expired list runs, while the idle thread has run and been preempted
C31_Witness ==
    /\ activeListNum = 1
    /\ currentThread \in Threads
    /\ ticksRemaining[Idle] = 0
    /\ readyLists[1 - activeListNum] # <<>>

\* ------------------------------------------------------------------------
\* The millisecond tick
\* ------------------------------------------------------------------------
\* Thread t, a live thread, is taken out of the timeout list by this step
RemovedSleeper(t) ==
    life[t] = "live" /\ InList(timeoutList, t) /\ ~InList(timeoutList', t)

\* C32: each execution of ISR A increases the millisecond counter by
\* exactly 1 (modulo its width), decrements only the head offset of the
\* timeout list (if non-zero), and then removes every sleeper whose
\* remaining time has reached 0 and signals it with TIMEOUT within that same
\* tick; on exit from ISR A the head of the timeout list, if any, has a
\* non-zero offset and every removed sleeper has TIMEOUT set in current and
\* is in the active ready list.
C32_MillisecondTick ==
    [][TickA =>
         /\ milliseconds' = (milliseconds + 1) % MsModulus
         /\ \A t \in AllThreads :
                timeoutOffset'[t] =
                    IF t = getHead(timeoutList) /\ timeoutOffset[t] > 0
                    THEN timeoutOffset[t] - 1 ELSE timeoutOffset[t]
         /\ timeoutList' # <<>> => timeoutOffset'[timeoutList'[1]] # 0
         /\ \A t \in AllThreads :
                RemovedSleeper(t) =>
                    /\ SIG_TIMEOUT \subseteq currentSignals'[t]
                    /\ InList(readyLists'[activeListNum'], t)]_vars

\* ------------------------------------------------------------------------
\* What wait() returns
\* ------------------------------------------------------------------------
\* Thread t is at the point of wait() where the active signals are
\* computed, as the step ends: active is what getActiveSignals() yields in
\* the state before the step
Computed(t, active) ==
    /\ currentSignals'[t] = currentSignals[t] \ active
    /\ IF active \cap SIG_STOP = {}
       THEN /\ returned'.thread = t
            /\ returned'.mask = active
            /\ timeoutOffset'[t] = 0
            /\ pc'[t] = "run"
       ELSE /\ pc'[t] = "stopped"
            /\ waitingSignals'[t] = SIG_START
            /\ rc'[t] = active
            /\ returned'.thread # t

\* C33: when wait() called by the current thread returns a mask R, R is
\* current /\ waiting as computed at the check (a wait that does not
\* block) or on resumption (a wait that blocked), the bits of R have been
\* cleared from current at that point and the thread's timeoutOffset is 0
\* at the return; when R contains STOP the thread blocks on START at that
\* point and R is returned when that wait on START ends.
C33_WaitReturns ==
    [][\A t \in Threads :
          /\ \A timeout \in Timeouts : \A sigs \in WaitInputs(t) :
                (/\ Wait(t, t, sigs, timeout)
                 /\ currentSignals[t] \cap WaitingMask(t, sigs, timeout) # {})
                    => Computed(t, currentSignals[t]
                                     \cap WaitingMask(t, sigs, timeout))
          /\ (pc[t] = "wait" /\ WaitResume(t))
                => Computed(t, currentSignals[t] \cap waitingSignals[t])
          /\ (pc[t] = "stopped" /\ WaitResume(t))
                => /\ returned'.thread = t
                   /\ returned'.mask = rc[t]
                   /\ timeoutOffset'[t] = 0]_vars

\* ------------------------------------------------------------------------
\* Thread exit with a termination synapse and an exit code slot
\* ------------------------------------------------------------------------
ExitCodes == {"ok", "failed"}

\* notifySyn->signal() in globalThreadEntry(): the synapse signals its
\* thread with its mask
notifyTermination(s, t) ==
    IF termSyn[t] = NoSynapse THEN s
    ELSE signal(s, termSyn[t].thread, termSyn[t].mask)

\* Thread t holds no termination synapse of a thread that can still exit,
\* and no termination notice it has not yet taken
NotWatching(t, sig) ==
    /\ sig \notin currentSignals[t]
    /\ \A v \in Threads : termSyn[v].thread = t => life[v] # "live"

\* new Thread( ..., TF_READY, &syn, &slot ) by thread t, syn being t's
\* synapse for signal sig
NewThreadSyn(t, u, tk, sig) ==
    /\ Running(t)
    /\ sig \in allocatedSignals[t] \cap SchedBits
    /\ NotWatching(t, sig)
    /\ u \in UserThreads /\ life[u] = "none"
    /\ Become(newThread(K0, u, tk))
    /\ termSyn' = [termSyn EXCEPT ![u] = [thread |-> t, mask |-> {sig}]]
    /\ exitCode' = [exitCode EXCEPT ![u] = "unwritten"]
    /\ UNCHANGED <<held, lastAlloc, toggles, elapsed, fired, ivars>>

\* Thread::fromPool( ..., &syn, &slot ) by thread t
FromPoolSyn(t, sig) ==
    /\ Running(t)
    /\ sig \in allocatedSignals[t] \cap SchedBits
    /\ NotWatching(t, sig)
    /\ poolThreadList # <<>>
    /\ Become(fromPool(K0))
    /\ termSyn' = [termSyn EXCEPT ![fromPoolReturn(K)] =
                      [thread |-> t, mask |-> {sig}]]
    /\ exitCode' = [exitCode EXCEPT ![fromPoolReturn(K)] = "unwritten"]
    /\ UNCHANGED <<held, lastAlloc, toggles, elapsed, fired, ivars>>

\* The entry function of thread t returns ec: globalThreadEntry() from its
\* cli() to its yield().  A thread exits once no synapse of its own is
\* held by a thread that can still signal it.
Exit(t, ec) ==
    /\ Running(t)
    /\ \A v \in Threads : termSyn[v].thread = t => life[v] # "live"
    /\ Become(globalThreadEntry(notifyTermination(K0, t), t))
    /\ exitCode' = [exitCode EXCEPT ![t] = IF @ = "none" THEN @ ELSE ec]
    /\ UNCHANGED <<held, lastAlloc, toggles, elapsed, fired, termSyn, ivars>>

\* A parent thread that creates threads and takes pool threads with its
\* termination synapse and an exit code slot and waits for the notice, with
\* or without timeout; children and pool jobs that sleep and exit; both
\* timer interrupts
NextExit ==
    \/ Boot
    \/ \E t \in CoreThreads, u \in UserThreads, tk \in InitialTicks :
           \E sig \in SchedBits : NewThreadSyn(t, u, tk, sig)
    \/ \E t \in CoreThreads, sig \in SchedBits : FromPoolSyn(t, sig)
    \/ \E t \in Threads, ec \in ExitCodes : Exit(t, ec)
    \/ \E t \in CoreThreads, timeout \in Timeouts :
           Wait(t, t, SchedBits, timeout)
    \/ \E t \in Threads \ CoreThreads, timeout \in Timeouts \ {0} :
           Wait(t, t, {}, timeout)
    \/ \E t \in Threads : WaitResume(t)
    \/ \E t \in CoreThreads : AllocateSignal(t, t, NUM_RESERVED_SIGS)
    \/ TickA
    \/ TickB

SpecExit == Init /\ [][NextExit]_vars

\* Thread t, which has exited, is out of the scheduler's lists: it is in
\* the pool list if it is a pool thread, and destroyed with its stack pages
\* free otherwise
ExitedClean(t) ==
    /\ ~InActive(t) /\ ~InExpired(t) /\ ~InTimeout(t)
    /\ IF t \in PoolThreads
       THEN InPool(t) /\ life[t] = "dormant"
       ELSE /\ life[t] = "none" /\ stackBottom[t] = NULL
            /\ ~InPool(t)

\* The wait() that returned in the last step gave thread t's termination
\* notice to the holder of t's termination synapse
NoticeTaken(t) ==
    /\ termSyn[t] # NoSynapse
    /\ returned.thread = termSyn[t].thread
    /\ termSyn[t].mask \subseteq returned.mask

\* C34: thread exit ordering.  The trampoline writes the exit code to the
\* out-slot and signals the termination synapse before the exiting thread
\* leaves the active list, all in one interrupt-free step, at the end of
\* which the exited thread is in no ready or timeout list (in the pool
\* list if a pool thread, destroyed with its stack pages freed otherwise);
\* hence whenever the thread woken by the termination synapse runs and
\* takes the notice, the out-slot holds the exit code and the exited thread
\* is out of the ready and timeout lists.
C34_ExitOrdering ==
    /\ [][\A t \in Threads, ec \in ExitCodes :
             Exit(t, ec) =>
                /\ exitCode[t] # "none" => exitCode'[t] = ec
                /\ termSyn[t] # NoSynapse =>
                       termSyn[t].mask \subseteq
                           currentSignals'[termSyn[t].thread]
                /\ ExitedClean(t)']_vars
    /\ [](\A t \in Threads :
             NoticeTaken(t) => exitCode[t] \in ExitCodes /\ ExitedClean(t))

\* ------------------------------------------------------------------------
\* The interrupt flag
\* ------------------------------------------------------------------------
\* The I flag after cli(), on entry to an ATOMIC_BLOCK and on entry to an
\* interrupt vector
cliNoEffect(i) == i

cli(i) == FALSE

\* The I flag after reti
reti(i) == TRUE

\* ATOMIC_RESTORESTATE: the I flag when a block that saved the flag
\* `saved` ends
ATOMIC_RESTORESTATE(saved, i) == saved

\* The atomic blocks of a wait() end, innermost first
RECURSIVE exitBlocks(_, _)
exitBlocks(blocks, i) ==
    IF blocks = <<>> THEN i
    ELSE exitBlocks(SubSeq(blocks, 1, Len(blocks) - 1),
                    ATOMIC_RESTORESTATE(blocks[Len(blocks)], i))

\* What the steps of the interrupt-flag specification leave alone
NoAux == UNCHANGED <<held, lastAlloc, toggles, elapsed, fired, xvars>>

\* postMain(): the first yield, which ends in reti
PostMainI ==
    /\ ~Started
    /\ Become(yield(K0))
    /\ sreg' = reti(cli(sreg))
    /\ unmasked' = (unmasked \/ cli(sreg))
    /\ UNCHANGED savedSreg
    /\ NoAux

\* The running thread executes cli() or sei() in its own code
SetI(t, v) ==
    /\ Running(t)
    /\ sreg # v
    /\ Become(K0)
    /\ sreg' = v
    /\ UNCHANGED <<savedSreg, unmasked>>
    /\ NoAux

\* A call of the running thread that is one atomic block: signal(),
\* stop(), restart(), allocateSignal(), and the atomic block of the
\* constructor
AtomicCall(t) ==
    /\ Running(t)
    /\ \/ \E target \in Threads :
              Known(target) /\ Become(signal(K0, target, SchedBits))
       \/ \E target \in Threads : Known(target) /\ Become(stop(K0, target))
       \/ \E target \in Threads :
              Known(target) /\ Become(restart(K0, target))
       \/ t \in UserThreads
              /\ Become(allocateSignal(K0, t, NUM_RESERVED_SIGS))
       \/ \E u \in AltThreads, tk \in InitialTicks :
              life[u] = "none" /\ Become(newThread(K0, u, tk))
    /\ sreg' = ATOMIC_RESTORESTATE(sreg, cli(sreg))
    /\ unmasked' = (unmasked \/ cli(sreg))
    /\ UNCHANGED savedSreg
    /\ NoAux

\* wait() by the running thread, up to its return or to the reti of the
\* yield() that blocks it, in the outer or in the nested atomic block
WaitI(t, sigs, timeout) ==
    /\ Running(t)
    /\ LET i == cli(sreg)
           n == wait(K0, t, t, sigs, timeout)
       IN /\ Become(n)
          /\ unmasked' = (unmasked \/ i)
          /\ IF n.returned.thread = t
             THEN /\ sreg' = ATOMIC_RESTORESTATE(sreg, i)
                  /\ UNCHANGED savedSreg
             ELSE /\ sreg' = reti(i)
                  /\ savedSreg' = [savedSreg EXCEPT ![t] =
                         IF n.pc[t] = "stopped" THEN <<sreg, i>>
                         ELSE <<sreg>>]
    /\ NoAux

\* wait() from the return of yield() on: cli(), then up to its return or
\* to the reti of the yield() that blocks it in the nested block
WaitResumeI(t) ==
    /\ t \in Threads
    /\ currentThread = t
    /\ life[t] = "live"
    /\ pc[t] \in {"wait", "stopped"}
    /\ LET i == cli(sreg)
           n == waitResume(K0, t)
       IN /\ Become(n)
          /\ unmasked' = (unmasked \/ i)
          /\ IF n.returned.thread = t
             THEN /\ sreg' = exitBlocks(savedSreg[t], i)
                  /\ savedSreg' = [savedSreg EXCEPT ![t] = <<>>]
             ELSE /\ sreg' = reti(i)
                  /\ savedSreg' = [savedSreg EXCEPT ![t] = Append(@, i)]
    /\ NoAux

\* globalThreadEntry() from its cli() to the reti of its yield()
ExitI(t) ==
    /\ Running(t)
    /\ Become(globalThreadEntry(K0, t))
    /\ sreg' = reti(cli(sreg))
    /\ unmasked' = (unmasked \/ cli(sreg))
    /\ UNCHANGED savedSreg
    /\ NoAux

\* An interrupt is served: the vector is entered with the I flag cleared
\* and left by reti
Interrupt ==
    /\ Started
    /\ sreg
    /\ \/ Become(TIMER0_COMPB_vect(K0))
       \/ \E target \in Threads :
              Known(target) /\ Become(signal(K0, target, SchedBits))
    /\ sreg' = reti(cli(sreg))
    /\ unmasked' = (unmasked \/ cli(sreg))
    /\ UNCHANGED savedSreg
    /\ NoAux

\* Threads that call the kernel with interrupts enabled or disabled, block
\* in wait() without timeout, are stopped and restarted, and exit, under
\* the preemption interrupt and a device interrupt that signals
NextIrq ==
    \/ \E u \in CoreThreads, tk \in InitialTicks : MainNewThread(u, tk)
    \/ PostMainI
    \/ \E t \in Threads, v \in BOOLEAN : SetI(t, v)
    \/ \E t \in Threads : AtomicCall(t)
    \/ \E t \in Threads : WaitI(t, SchedBits, 0)
    \/ \E t \in Threads : WaitResumeI(t)
    \/ \E t \in Threads : ExitI(t)
    \/ Interrupt

SpecIrq == Init /\ [][NextIrq]_vars

Dormant(p) == life[p] = "dormant" /\ InPool(p)

\* C37: a pool descriptor that is back in the pool list is not made the
\* current thread and is not inserted into a ready list or the timeout list
\* by any step that leaves it dormant, that is, by any step but the
\* fromPool() that takes it, stop(), restart() and signal() on it through
\* a pointer an earlier fromPool() returned included.
C37_DormantUntouched ==
    [][\A p \in PoolThreads :
          (Dormant(p) /\ life'[p] = "dormant") =>
              /\ currentThread' # p
              /\ InList(readyLists'[0], p) => InList(readyLists[0], p)
              /\ InList(readyLists'[1], p) => InList(readyLists[1], p)
              /\ InTimeout(p)' => InTimeout(p)]_vars

\* ------------------------------------------------------------------------
\* Thread creation when the heap is exhausted
\* ------------------------------------------------------------------------
\* Thread::operator bool() of descriptor t
operator_bool(t) == stackBottom[t] # NULL

\* Threads that are created and exit and pool jobs, while the program also
\* takes stack-sized regions from the heap and frees them, under the
\* preemption timer
NextHeap ==
    \/ Boot
    \/ Lifecycle
    \/ \E strat \in SearchStrategy : Started /\ Allocate(StackPages, strat)
    \/ \E r \in held : Free(r)
    \/ TickB

SpecHeap == Init /\ [][NextHeap]_vars

\* C38: if the stack allocation of a new thread fails, the constructor
\* inserts the descriptor into no ready list and into no pool list and the
\* thread object tests false; the scheduler never selects a thread that
\* has no stack.
C38_NoStackNoThread ==
    /\ [][\A t \in Threads, u \in UserThreads, tk \in InitialTicks :
             (NewThread(t, u, tk) /\ stackBottom'[u] = NULL) =>
                 /\ ~InActive(u)' /\ ~InExpired(u)' /\ ~InPool(u)'
                 /\ ~operator_bool(u)']_vars
    /\ [](\A u \in Threads :
             (Live(u) /\ currentThread = u) => operator_bool(u))

\* ------------------------------------------------------------------------
\* The effective waiting mask
\* ------------------------------------------------------------------------
\* wait() by thread t has returned mask r in this step
Returns(t, r) == returned'.thread = t /\ returned'.mask = r

\* C39: for the current thread the effective waiting mask built by wait()
\* is never empty, the reserved signals being permanently allocated, so
\* wait() never returns 0 for an empty mask; wait(sigs, 0) with no waited
\* signal pending blocks, and returns only once a waited signal has
\* arrived; delay(0), which is wait(0, 0), blocks until STOP is signalled.
C39_WaitingMaskNeverEmpty ==
    /\ [](\A t \in Threads :
             Live(t) => SIG_ALL_RESERVED \subseteq allocatedSignals[t])
    /\ [][\A t \in Threads :
             /\ \A timeout \in Timeouts : \A sigs \in WaitInputs(t) :
                   Wait(t, t, sigs, timeout) =>
                       /\ WaitingMask(t, sigs, timeout) # {}
                       /\ ~Returns(t, {})
                       /\ (currentSignals[t] \cap WaitingMask(t, sigs, 0) = {}
                             /\ timeout = 0)
                          => pc'[t] = "wait" /\ returned'.thread # t
             /\ (pc[t] = "wait" /\ WaitResume(t)) =>
                   /\ ~Returns(t, {})
                   /\ (waitingSignals[t] = SIG_STOP /\ returned'.thread = t)
                          => SIG_STOP \subseteq returned'.mask]_vars

\* ------------------------------------------------------------------------
\* The switching gate across a cooperative yield
\* ------------------------------------------------------------------------
\* Thread t blocks in this step: it calls wait() and yields the processor
\* to another thread
BlocksHere(t) ==
    /\ Running(t) /\ pc'[t] \in {"wait", "stopped"}
    /\ currentThread' # t

\* C40: the switching gate is one global flag that is not saved or
\* restored per thread.  Only forbid() and permit() change it; when a
\* thread that has called forbid() blocks in wait(), the thread dispatched
\* next runs with the gate still closed, and while the gate is closed ISR B
\* switches no thread, whichever thread is running.
C40_GateIsGlobal ==
    [][/\ switchingEnabled' # switchingEnabled
              => \E t \in Threads : Forbid(t) \/ Permit(t)
       /\ \A t \in Threads :
              (~switchingEnabled /\ BlocksHere(t))
                  => ~switchingEnabled' /\ currentThread' # t
       /\ (~switchingEnabled /\ TickB)
              => UNCHANGED <<currentThread, readyLists, activeListNum>>]_vars

\* With the gate closed, one thread is blocked in wait() and off the ready
\* lists, and the thread dispatched after it runs on although ISR B has
\* counted its quantum down to zero
C40_Witness ==
    /\ ~switchingEnabled
    /\ \E t \in Threads, c \in Threads :
          /\ t # c
          /\ Blocked(t) /\ ~InActive(t) /\ ~InExpired(t)
          /\ currentThread = c /\ pc[c] = "run"
          /\ ticksRemaining[c] = 0

\* Several threads that own a signal, wait for it without timeout and are
\* signalled by interrupt handlers, under the preemption timer.  main()
\* creates them in the order of their descriptors.
NextLive ==
    \/ \E u \in UserThreads, tk \in InitialTicks :
           /\ \A v \in UserThreads : v < u => life[v] # "none"
           /\ MainNewThread(u, tk)
    \/ PostMain
    \/ \E t \in UserThreads : AllocateSignal(t, t, NUM_RESERVED_SIGS)
    \/ \E t \in Threads : Wait(t, t, SchedBits, 0)
    \/ \E t \in Threads : WaitResume(t)
    \/ \E target \in Threads : IsrSignal(target, SchedBits)
    \/ TickB

\* Thread t has been given the processor inside its wait()
CanResume(t) == currentThread = t /\ Live(t) /\ pc[t] \in {"wait", "stopped"}

\* main() reaches postMain().  The preemption timer keeps firing: if
\* switching is enabled again and again, ISR B runs with switching enabled
\* again and again.  A thread that is given the processor again and again
\* gets to execute the rest of its wait().  The last two are strong
\* fairness of TickB /\ switchingEnabled and of WaitResume(t), with the
\* enabling condition written out.
Fairness ==
    /\ WF_vars(PostMain)
    /\ (<>[]~(Started /\ switchingEnabled))
           \/ ([]<><<TickB /\ switchingEnabled>>_vars)
    /\ \A t \in Threads :
           (<>[]~CanResume(t)) \/ ([]<><<WaitResume(t)>>_vars)

SpecLive == Init /\ [][NextLive]_vars /\ Fairness

\* Thread t is blocked in a wait without timeout and the signals of mask a
\* are the waited signals it has been sent
Signalled(t, a) ==
    /\ Live(t) /\ pc[t] = "wait"
    /\ SIG_TIMEOUT \cap waitingSignals[t] = {}
    /\ currentThread # t
    /\ currentSignals[t] \cap waitingSignals[t] = a

\* C2: if thread T is blocked in wait on mask M with no timeout and is
\* sent signal(M') with M' \cap M # 0, and switching is enabled again and
\* again, T's wait eventually returns a non-zero subset of M' \cap M.
C2_SignalLiveness ==
    ([]<>switchingEnabled) =>
        \A t \in UserThreads : \A a \in SignalMasks :
            Signalled(t, a) ~>
                (/\ returned.thread = t
                 /\ returned.mask # {}
                 /\ returned.mask \subseteq a)

\* ------------------------------------------------------------------------
\* Starvation
\* ------------------------------------------------------------------------
\* Several threads that own a signal, wait for it without timeout and
\* signal one another, under the preemption timer.  main() creates them in
\* the order of their descriptors.
NextStarve ==
    \/ \E u \in UserThreads, tk \in InitialTicks :
           /\ \A v \in UserThreads : v < u => life[v] # "none"
           /\ MainNewThread(u, tk)
    \/ PostMain
    \/ \E t \in UserThreads : AllocateSignal(t, t, NUM_RESERVED_SIGS)
    \/ \E t \in Threads : Wait(t, t, SchedBits, 0)
    \/ \E t \in Threads : WaitResume(t)
    \/ \E t \in Threads, target \in Threads : Signal(t, target, SchedBits)
    \/ TickB

SpecStarve == Init /\ [][NextStarve]_vars /\ Fairness

\* C36: no starvation of ready threads.  With switching enabled and fair
\* timer ticks, every thread that is in the expired ready list eventually
\* becomes the current thread, even while other threads keep waking each
\* other with signal().
C36_NoStarvation ==
    ([]<>switchingEnabled) =>
        \A t \in UserThreads :
            (Live(t) /\ InExpired(t)) ~> (currentThread = t)

====
